---- MODULE Spec2Model ----
(***************************************************************************)
(* SmartBiteAI: the health-risk evaluation engine                          *)
(* (server/services/healthRiskService.js) and its callers.                 *)
(*                                                                         *)
(* JavaScript values are modelled as follows.                              *)
(*   - a string is a TLA+ string; "" also stands for an absent (undefined) *)
(*     string field, which the code treats the same way (both are falsy);  *)
(*   - NotAString stands for a truthy value that is not a string (the      *)
(*     number 5): calling toLowerCase on it throws a TypeError;            *)
(*   - an array is a sequence; an object is a record;                      *)
(*   - a function that can throw returns a record with a threw field;      *)
(*   - a function that mutates its argument returns the argument's new     *)
(*     value next to its result.                                           *)
(***************************************************************************)
EXTENDS Integers, Sequences, FiniteSets, TLC

VARIABLES
    allergenDatabase,         \* this.allergenDatabase
    diseaseRiskDatabase,      \* this.diseaseRiskDatabase
    drugInteractionDatabase,  \* this.drugInteractionDatabase
    food,                     \* the food object the caller holds and passes in
    userProfile,              \* the profile object the caller passes in
    food0,                    \* history: food as it was before the first call
    userProfile0,             \* history: profile as it was before the first call
    verdicts,                 \* history: the verdicts returned so far, in order
    aggIn,                    \* a risks object handed to calculateOverallRisk
    aggOut,                   \* what calculateOverallRisk returned for aggIn
    aggFirst,                 \* history: the first result for this multiset
    caseChange,               \* how the letter case of the inputs is changed
    caseVerdicts,             \* the verdicts for the inputs as given and changed
    order,                    \* an order in which the four checkers are run
    orderVerdicts,            \* the verdicts in the code's order and in order
    allergenCalls,            \* history: what checkAllergenRisks handed back
    probe,                    \* one method with its arguments and what it returned
    users,                    \* the User collection, by _id
    inventory,                \* the Food collection, in the order of saving
    emailTransporter,         \* this.emailTransporter is set
    twilioClient,             \* this.twilioClient is set
    requests,                 \* number of requests and service calls handled
    lastRequest,              \* history: the last request or call and its outcome
    connections,              \* open sockets: the user each belongs to
    rooms,                    \* the Socket.IO rooms each socket has joined
    received,                 \* history: new-notification events received
    report                    \* the last health-insights response or PDF report

knowledgeVars == <<allergenDatabase, diseaseRiskDatabase, drugInteractionDatabase>>
callVars == <<food, userProfile, food0, userProfile0, verdicts>>
aggVars == <<aggIn, aggOut, aggFirst>>
caseVars == <<caseChange, caseVerdicts>>
orderVars == <<order, orderVerdicts>>
engineVars == <<callVars, aggVars, caseVars, orderVars, allergenCalls, probe>>
notifyVars == <<users, inventory, emailTransporter, twilioClient, requests,
               lastRequest>>
socketVars == <<connections, rooms, received>>

vars == <<knowledgeVars, engineVars, notifyVars, socketVars, report>>

(***************************************************************************)
(* Bounds                                                                  *)
(***************************************************************************)
\* number of analyzeHealthRisk calls made on the same food object
MaxCalls == 2
\* longest finding list handed to calculateOverallRisk on its own
MaxFindings == 3

(***************************************************************************)
(* Strings                                                                 *)
(***************************************************************************)
NotAString == "<number 5>"

IsString(v) == v # NotAString

\* String(v), as Array.prototype.join applies it to each element
ToStr(v) == IF v = NotAString THEN "5" ELSE v

UpperToLower ==
    ("A" :> "a") @@ ("B" :> "b") @@ ("C" :> "c") @@ ("D" :> "d") @@ ("E" :> "e")
 @@ ("F" :> "f") @@ ("G" :> "g") @@ ("H" :> "h") @@ ("I" :> "i") @@ ("J" :> "j")
 @@ ("K" :> "k") @@ ("L" :> "l") @@ ("M" :> "m") @@ ("N" :> "n") @@ ("O" :> "o")
 @@ ("P" :> "p") @@ ("Q" :> "q") @@ ("R" :> "r") @@ ("S" :> "s") @@ ("T" :> "t")
 @@ ("U" :> "u") @@ ("V" :> "v") @@ ("W" :> "w") @@ ("X" :> "x") @@ ("Y" :> "y")
 @@ ("Z" :> "z")

LowerChar(c) == IF c \in DOMAIN UpperToLower THEN UpperToLower[c] ELSE c

\* String.prototype.toLowerCase on a string: every character lowered, the
\* string taken by halves
RECURSIVE toLowerCase(_)
toLowerCase(s) ==
    IF Len(s) = 0 THEN ""
    ELSE IF Len(s) = 1 THEN LowerChar(s)
    ELSE toLowerCase(SubSeq(s, 1, Len(s) \div 2))
         \o toLowerCase(SubSeq(s, Len(s) \div 2 + 1, Len(s)))

\* String.prototype.includes
includes(hay, k) ==
    \E i \in 1..(Len(hay) - Len(k) + 1) : SubSeq(hay, i, i + Len(k) - 1) = k

\* String.prototype.trim (the inputs hold no white space but the blank)
RECURSIVE trim(_)
trim(s) ==
    IF s = "" THEN ""
    ELSE IF SubSeq(s, 1, 1) = " " THEN trim(SubSeq(s, 2, Len(s)))
    ELSE IF SubSeq(s, Len(s), Len(s)) = " " THEN trim(SubSeq(s, 1, Len(s) - 1))
    ELSE s

\* String.prototype.split(',')
RECURSIVE split(_)
split(s) ==
    IF \E i \in 1..Len(s) : SubSeq(s, i, i) = ","
    THEN LET c == CHOOSE i \in 1..Len(s) :
                    /\ SubSeq(s, i, i) = ","
                    /\ \A j \in 1..(i - 1) : SubSeq(s, j, j) # ","
         IN  <<SubSeq(s, 1, c - 1)>> \o split(SubSeq(s, c + 1, Len(s)))
    ELSE <<s>>

\* Array.prototype.join(' ')
RECURSIVE join(_)
join(arr) ==
    IF arr = <<>> THEN ""
    ELSE IF Len(arr) = 1 THEN ToStr(arr[1])
    ELSE join(SubSeq(arr, 1, Len(arr) \div 2)) \o " "
         \o join(SubSeq(arr, Len(arr) \div 2 + 1, Len(arr)))

\* arr.map(f) for a sequence
Map(f(_), arr) == [i \in 1..Len(arr) |-> f(arr[i])]

\* the concatenation of f(x) for the x of arr, in order: what a forEach
\* that pushes onto one array builds
RECURSIVE ConcatMap(_, _)
ConcatMap(f(_), arr) ==
    IF arr = <<>> THEN <<>> ELSE f(Head(arr)) \o ConcatMap(f, Tail(arr))

(***************************************************************************)
(* Knowledge bases                                                         *)
(***************************************************************************)
initializeAllergenDatabase ==
    ("nuts" :> <<"nuts", "peanuts", "almonds", "walnuts", "cashews", "pistachios",
                 "hazelnuts", "pecans", "brazil nuts", "macadamia", "pine nuts">>)
 @@ ("shellfish" :> <<"shellfish", "shrimp", "crab", "lobster", "oysters",
                      "mussels", "clams", "scallops", "prawns">>)
 @@ ("fish" :> <<"fish", "salmon", "tuna", "cod", "mackerel", "sardines",
                 "anchovies", "herring">>)
 @@ ("dairy" :> <<"milk", "dairy", "cheese", "butter", "cream", "yogurt",
                  "lactose", "casein", "whey">>)
 @@ ("eggs" :> <<"eggs", "egg", "albumin", "lecithin", "mayonnaise">>)
 @@ ("soy" :> <<"soy", "soya", "soybeans", "tofu", "tempeh", "miso",
                "soy sauce", "edamame">>)
 @@ ("gluten" :> <<"gluten", "wheat", "barley", "rye", "oats", "spelt",
                   "kamut", "triticale">>)
 @@ ("sesame" :> <<"sesame", "tahini", "sesame oil", "sesame seeds">>)
 @@ ("sulfites" :> <<"sulfites", "sulfur dioxide", "sodium sulfite",
                     "potassium sulfite">>)
 @@ ("mustard" :> <<"mustard", "mustard seed", "mustard oil">>)
 @@ ("celery" :> <<"celery", "celeriac", "celery seed">>)
 @@ ("lupin" :> <<"lupin", "lupine", "lupin flour">>)

initializeDiseaseRiskDatabase ==
    ("diabetes" :>
        [avoid |-> <<"sugar", "glucose", "fructose", "sucrose",
                     "high fructose corn syrup", "honey", "maple syrup", "agave">>,
         limit |-> <<"carbohydrates", "refined flour", "white rice",
                     "white bread", "pasta">>,
         consequences |->
           [shortTerm |-> "May cause blood sugar spikes and difficulty managing glucose levels",
            longTerm |-> "Can worsen diabetes control and increase risk of complications"]])
 @@ ("hypertension" :>
        [avoid |-> <<"sodium", "salt", "monosodium glutamate", "sodium chloride",
                     "sodium bicarbonate">>,
         limit |-> <<"processed foods", "canned foods", "pickled foods", "cured meats">>,
         consequences |->
           [shortTerm |-> "May increase blood pressure temporarily",
            longTerm |-> "Can worsen hypertension and increase cardiovascular risk"]])
 @@ ("heart disease" :>
        [avoid |-> <<"trans fats", "hydrogenated oils", "partially hydrogenated oils">>,
         limit |-> <<"saturated fats", "cholesterol", "sodium", "processed meats">>,
         consequences |->
           [shortTerm |-> "May affect cardiovascular function",
            longTerm |-> "Can increase risk of heart attacks and strokes"]])
 @@ ("kidney disease" :>
        [avoid |-> <<"phosphorus", "potassium", "sodium">>,
         limit |-> <<"protein", "dairy products", "nuts", "whole grains">>,
         consequences |->
           [shortTerm |-> "May strain kidney function",
            longTerm |-> "Can accelerate kidney damage and disease progression"]])
 @@ ("liver disease" :>
        [avoid |-> <<"alcohol", "acetaminophen", "iron supplements">>,
         limit |-> <<"sodium", "protein", "fats">>,
         consequences |->
           [shortTerm |-> "May stress liver function",
            longTerm |-> "Can worsen liver damage and impair detoxification"]])
 @@ ("celiac" :>
        [avoid |-> <<"gluten", "wheat", "barley", "rye", "oats", "spelt",
                     "kamut", "triticale">>,
         limit |-> <<>>,
         consequences |->
           [shortTerm |-> "May cause digestive symptoms, bloating, and discomfort",
            longTerm |-> "Can damage intestinal lining and cause malabsorption"]])
 @@ ("lactose intolerance" :>
        [avoid |-> <<"lactose", "milk", "dairy products">>,
         limit |-> <<"cheese", "yogurt", "ice cream">>,
         consequences |->
           [shortTerm |-> "May cause digestive upset, bloating, and diarrhea",
            longTerm |-> "Continued consumption may worsen symptoms"]])
 @@ ("gout" :>
        [avoid |-> <<"purines", "organ meats", "anchovies", "sardines", "beer">>,
         limit |-> <<"red meat", "seafood", "alcohol", "fructose">>,
         consequences |->
           [shortTerm |-> "May trigger gout attacks and joint pain",
            longTerm |-> "Can increase frequency and severity of gout episodes"]])

\* a medication entry without an avoid (or limit) list has it as <<>>: the
\* code skips an absent list, which pushes what an empty list pushes
initializeDrugInteractionDatabase ==
    ("warfarin" :>
        [avoid |-> <<"vitamin k", "leafy greens", "broccoli", "spinach", "kale">>,
         limit |-> <<>>,
         consequences |-> "May interfere with blood clotting medication effectiveness"])
 @@ ("ace inhibitors" :>
        [avoid |-> <<"potassium", "salt substitutes", "bananas", "oranges">>,
         limit |-> <<>>,
         consequences |-> "May cause dangerous potassium levels"])
 @@ ("calcium channel blockers" :>
        [avoid |-> <<"grapefruit", "grapefruit juice">>,
         limit |-> <<>>,
         consequences |-> "May increase drug concentration and side effects"])
 @@ ("statins" :>
        [avoid |-> <<"grapefruit", "grapefruit juice", "alcohol">>,
         limit |-> <<>>,
         consequences |-> "May increase risk of muscle damage and liver problems"])
 @@ ("monoamine oxidase inhibitors" :>
        [avoid |-> <<"tyramine", "aged cheese", "cured meats", "fermented foods", "alcohol">>,
         limit |-> <<>>,
         consequences |-> "May cause dangerous blood pressure spikes"])
 @@ ("metformin" :>
        [avoid |-> <<>>,
         limit |-> <<"alcohol", "high carbohydrate foods">>,
         consequences |-> "May affect blood sugar control and increase side effects"])

symptomTriggers ==
    ("headache" :> <<"msg", "monosodium glutamate", "nitrates", "nitrites",
                     "tyramine", "caffeine">>)
 @@ ("bloating" :> <<"lactose", "beans", "cabbage", "broccoli", "carbonated",
                     "artificial sweeteners">>)
 @@ ("heartburn" :> <<"spicy", "acidic", "tomato", "citrus", "chocolate",
                      "coffee", "alcohol">>)
 @@ ("nausea" :> <<"greasy", "fried", "high fat", "spicy", "strong odors">>)
 @@ ("stomach pain" :> <<"lactose", "gluten", "spicy", "acidic", "high fiber">>)
 @@ ("diarrhea" :> <<"lactose", "artificial sweeteners", "high fat", "spicy", "caffeine">>)
 @@ ("constipation" :> <<"low fiber", "processed", "dairy", "iron supplements">>)
 @@ ("rash" :> <<"food dyes", "preservatives", "artificial colors", "sulfites">>)

(***************************************************************************)
(* HealthRiskService                                                       *)
(***************************************************************************)
\* extractIngredients without the pushes of name, brand and category
extractIngredients_IngredientsOnly(f) ==
    [ingredients |-> IF f.ingredients.kind = "string" /\ f.ingredients.str # ""
                     THEN Map(trim, split(f.ingredients.str))
                     ELSE IF f.ingredients.kind = "array" THEN f.ingredients.arr
                     ELSE <<>>,
     food |-> f]

\* extractIngredients returns its local array; when food.ingredients is an
\* array the local variable is that very array, so the three pushes change
\* the food object: food is the food after the call.
extractIngredients(f) ==
    LET fromField ==
            IF f.ingredients.kind = "string" /\ f.ingredients.str # ""
            THEN Map(trim, split(f.ingredients.str))
            ELSE IF f.ingredients.kind = "array" THEN f.ingredients.arr
            ELSE <<>>
        pushed == (IF f.name # "" THEN <<f.name>> ELSE <<>>)
               \o (IF f.brand # "" THEN <<f.brand>> ELSE <<>>)
               \o (IF f.category # "" THEN <<f.category>> ELSE <<>>)
        ingredients == fromField \o pushed
    IN  [ingredients |-> ingredients,
         food |-> IF f.ingredients.kind = "array"
                  THEN [f EXCEPT !.ingredients.arr = ingredients]
                  ELSE f]

\* the ingredients taken as they are, toLowerCase left out
lowerCased_AsIs(ingredients) == ingredients

\* ingredient.toLowerCase() for every element of ingredients; an element
\* that is not a string stays what it is (the call on it throws)
lowerCased(ingredients) ==
    [i \in 1..Len(ingredients) |->
        IF IsString(ingredients[i]) THEN toLowerCase(ingredients[i]) ELSE NotAString]

\* some() with the keyword compared to the whole ingredient
someIncludes_WholeIngredient(lowered, keyword) ==
    LET hit(i) == IsString(lowered[i]) /\ lowered[i] = keyword
    IN  IF \E i \in 1..Len(lowered) :
              /\ ~IsString(lowered[i])
              /\ \A j \in 1..(i - 1) : ~hit(j)
        THEN "throw"
        ELSE IF \E i \in 1..Len(lowered) : hit(i) THEN "true" ELSE "false"

\* ingredients.some(ingredient => ingredient.toLowerCase().includes(keyword)),
\* given lowerCased(ingredients): some() walks the array in order and stops
\* at the first hit; an element that is not a string throws when it is reached
someIncludes(lowered, keyword) ==
    LET hit(i) == IsString(lowered[i]) /\ includes(lowered[i], keyword)
    IN  IF \E i \in 1..Len(lowered) :
              /\ ~IsString(lowered[i])
              /\ \A j \in 1..(i - 1) : ~hit(j)
        THEN "throw"
        ELSE IF \E i \in 1..Len(lowered) : hit(i) THEN "true" ELSE "false"

\* what a step of a checker leaves in place of a finding when it throws
TypeError == [type |-> "TypeError"]

\* some step of the checker threw
Threw(raw) == \E i \in 1..Len(raw) : raw[i].type = "TypeError"

\* a step of a checker's loop that looks at the some() test alone
push_MatchOnly(match, other, finding) ==
    IF match = "throw" THEN <<TypeError>>
    ELSE IF match = "true" THEN <<finding>>
    ELSE <<>>

\* one step of a checker's loop: match is the outcome of the some() test,
\* other is the triggers or-ed with it; the step throws, pushes finding or
\* pushes nothing
push(match, other, finding) ==
    IF match = "throw" THEN <<TypeError>>
    ELSE IF match = "true" \/ other THEN <<finding>>
    ELSE <<>>

\* what a checker hands back: risks, the array it returns, with threw false,
\* or threw true when a step of it threw (the array is then lost); food is
\* the food object after the call
checkerResult(raw, f) ==
    [threw |-> Threw(raw), risks |-> IF Threw(raw) THEN <<>> ELSE raw, food |-> f]

nutrientMap == {"sugar", "sodium", "carbohydrates", "protein", "fat",
                "potassium", "phosphorus"}

highThresholds ==
    ("sugar" :> 15) @@ ("sodium" :> 600) @@ ("carbohydrates" :> 60)
 @@ ("protein" :> 20) @@ ("fat" :> 20) @@ ("potassium" :> 300)
 @@ ("phosphorus" :> 200)

\* checkNutritionContent with the threshold itself counted as high
checkNutritionContent_AtLeast(nutrition, nutrient, isLimit) ==
    IF \/ ~nutrition.defined
       \/ (~nutrition.macronutrients.defined /\ ~nutrition.micronutrients.defined)
    THEN FALSE
    ELSE LET macro == IF nutrition.macronutrients.defined
                      THEN nutrition.macronutrients.props ELSE <<>>
             micro == IF nutrition.micronutrients.defined
                      THEN nutrition.micronutrients.props ELSE <<>>
             allNutrients == micro @@ macro
             mappedNutrient == toLowerCase(nutrient)
         IN  IF \/ mappedNutrient \notin nutrientMap
                \/ mappedNutrient \notin DOMAIN allNutrients
                \/ allNutrients[mappedNutrient] = 0
             THEN FALSE
             ELSE IF isLimit
                  THEN allNutrients[mappedNutrient] >= highThresholds[mappedNutrient]
                  ELSE allNutrients[mappedNutrient] > 0

checkNutritionContent(nutrition, nutrient, isLimit) ==
    IF \/ ~nutrition.defined
       \/ (~nutrition.macronutrients.defined /\ ~nutrition.micronutrients.defined)
    THEN FALSE
    ELSE LET macro == IF nutrition.macronutrients.defined
                      THEN nutrition.macronutrients.props ELSE <<>>
             micro == IF nutrition.micronutrients.defined
                      THEN nutrition.micronutrients.props ELSE <<>>
             allNutrients == micro @@ macro
             mappedNutrient == toLowerCase(nutrient)
         IN  IF \/ mappedNutrient \notin nutrientMap
                \/ mappedNutrient \notin DOMAIN allNutrients
                \/ allNutrients[mappedNutrient] = 0
             THEN FALSE
             ELSE IF isLimit
                  THEN allNutrients[mappedNutrient] > highThresholds[mappedNutrient]
                  ELSE allNutrients[mappedNutrient] > 0

sugarKeywords == <<"glucose", "sugar", "sucrose", "fructose", "corn syrup",
                   "syrup", "jaggery", "sweet", "maltodextrin">>

\* the sugary foods without the soft drink
sugaryFoodKeywords_NoSoftDrink ==
    <<"biscuit", "cookie", "sweet", "chocolate", "candy", "cake", "pastry", "soda",
      "juice", "dessert">>

sugaryFoodKeywords == <<"biscuit", "cookie", "sweet", "chocolate", "candy",
                        "cake", "pastry", "soft drink", "soda", "juice", "dessert">>

\* heuristicHighRiskFor with the test of the disease inverted
heuristicHighRiskFor_TestInverted(disease, ctx) ==
    IF disease = "diabetes" THEN FALSE
    ELSE LET hay == ctx.name \o " " \o ctx.category \o " "
                    \o toLowerCase(join(ctx.ingredients))
         IN  \/ \E i \in 1..Len(sugarKeywords) : includes(hay, sugarKeywords[i])
             \/ \E i \in 1..Len(sugaryFoodKeywords) : includes(hay, sugaryFoodKeywords[i])

heuristicHighRiskFor(disease, ctx) ==
    IF disease # "diabetes" THEN FALSE
    ELSE LET hay == ctx.name \o " " \o ctx.category \o " "
                    \o toLowerCase(join(ctx.ingredients))
             hasSugar == \E i \in 1..Len(sugarKeywords) : includes(hay, sugarKeywords[i])
             looksSugary == \E i \in 1..Len(sugaryFoodKeywords) :
                                includes(hay, sugaryFoodKeywords[i])
         IN  hasSugar \/ looksSugary

checkAllergenRisks(f, userAllergies) ==
    LET ex == extractIngredients(f)
        lowered == lowerCased(ex.ingredients)
        finding(allergy, keyword) ==
            [type |-> "allergen",
             allergen |-> allergy,
             severity |-> "harmful",
             found |-> keyword,
             consequence |-> "Contains " \o allergy
                 \o " which you are allergic to. May cause allergic reactions.",
             recommendation |-> "Avoid this product completely due to "
                 \o allergy \o " allergy."]
        \* this.allergenDatabase[allergy.toLowerCase()] || [allergy.toLowerCase()]
        allergenKeywords(lower) ==
            IF lower \in DOMAIN allergenDatabase THEN allergenDatabase[lower]
            ELSE <<lower>>
        perAllergy(allergy) ==
            IF ~IsString(allergy) THEN <<TypeError>>
            ELSE ConcatMap(LAMBDA keyword :
                             push(someIncludes(lowered, keyword), FALSE,
                                  finding(allergy, keyword)),
                           allergenKeywords(toLowerCase(allergy)))
    IN  checkerResult(ConcatMap(perAllergy, userAllergies), ex.food)

checkDiseaseRisks(f, userDiseases) ==
    LET ex == extractIngredients(f)
        lowered == lowerCased(ex.ingredients)
        \* (food.name || '').toLowerCase(), (food.category || '').toLowerCase()
        typeError == ~IsString(f.name) \/ ~IsString(f.category)
        ctx == [name |-> toLowerCase(f.name), category |-> toLowerCase(f.category),
                ingredients |-> ex.ingredients]
        avoidFinding(disease, diseaseData, avoidItem, inIngredients, inNutrition,
                     heuristicHigh) ==
            [type |-> "disease",
             disease |-> disease,
             severity |-> IF heuristicHigh THEN "risky" ELSE "risky",
             found |-> IF inIngredients THEN avoidItem
                       ELSE IF inNutrition THEN avoidItem \o " (high)"
                       ELSE "heuristic",
             consequence |-> diseaseData.consequences.shortTerm,
             longTermConsequence |-> diseaseData.consequences.longTerm,
             recommendation |-> "Avoid due to " \o disease \o ". Contains "
                                \o avoidItem \o "."]
        avoidStep(disease, diseaseData, avoidItem, match, inNutrition, heuristicHigh) ==
            push(match, inNutrition \/ heuristicHigh,
                 avoidFinding(disease, diseaseData, avoidItem, match = "true",
                              inNutrition, heuristicHigh))
        limitFinding(disease, limitItem) ==
            [type |-> "disease",
             disease |-> disease,
             severity |-> "moderate",
             found |-> limitItem,
             consequence |-> "Should be limited due to " \o disease,
             recommendation |-> "Consume in moderation due to " \o disease \o "."]
        \* heuristicHigh is computed anew for every avoidItem, from the same
        \* arguments: it is passed in
        withData(disease, diseaseData, heuristicHigh) ==
            ConcatMap(LAMBDA avoidItem :
                        avoidStep(disease, diseaseData, avoidItem,
                                  someIncludes(lowered, toLowerCase(avoidItem)),
                                  checkNutritionContent(f.nutrition, avoidItem, TRUE),
                                  heuristicHigh),
                      diseaseData.avoid)
         \o ConcatMap(LAMBDA limitItem :
                        push(someIncludes(lowered, toLowerCase(limitItem)),
                             checkNutritionContent(f.nutrition, limitItem, TRUE),
                             limitFinding(disease, limitItem)),
                      diseaseData.limit)
        lookup(disease, key) ==
            IF key \notin DOMAIN diseaseRiskDatabase THEN <<>>
            ELSE withData(disease, diseaseRiskDatabase[key],
                          heuristicHighRiskFor(key, ctx))
        perDisease(disease) ==
            IF ~IsString(disease) THEN <<TypeError>>
            ELSE lookup(disease, toLowerCase(disease))
    IN  checkerResult(IF typeError THEN <<TypeError>>
                      ELSE ConcatMap(perDisease, userDiseases),
                      ex.food)

checkDrugInteractions(f, userMedications) ==
    LET ex == extractIngredients(f)
        lowered == lowerCased(ex.ingredients)
        avoidFinding(medication, drugData, avoidItem) ==
            [type |-> "drug_interaction",
             medication |-> medication,
             severity |-> "harmful",
             found |-> avoidItem,
             consequence |-> drugData.consequences,
             recommendation |-> "Avoid due to interaction with " \o medication \o "."]
        limitFinding(medication, drugData, limitItem) ==
            [type |-> "drug_interaction",
             medication |-> medication,
             severity |-> "moderate",
             found |-> limitItem,
             consequence |-> drugData.consequences,
             recommendation |-> "Limit consumption due to " \o medication
                                \o " interaction."]
        withData(medication, drugData) ==
            ConcatMap(LAMBDA avoidItem :
                        push(someIncludes(lowered, toLowerCase(avoidItem)), FALSE,
                             avoidFinding(medication, drugData, avoidItem)),
                      drugData.avoid)
         \o ConcatMap(LAMBDA limitItem :
                        push(someIncludes(lowered, toLowerCase(limitItem)), FALSE,
                             limitFinding(medication, drugData, limitItem)),
                      drugData.limit)
        lookup(medication, key) ==
            IF key \notin DOMAIN drugInteractionDatabase THEN <<>>
            ELSE withData(medication, drugInteractionDatabase[key])
        perMedication(medication) ==
            IF ~IsString(medication) THEN <<TypeError>>
            ELSE lookup(medication, toLowerCase(medication))
    IN  checkerResult(ConcatMap(perMedication, userMedications), ex.food)

\* checkSymptomTriggers with its findings at the severity of a disease finding
checkSymptomTriggers_Risky(f, userSymptoms) ==
    LET ex == extractIngredients(f)
        lowered == lowerCased(ex.ingredients)
        finding(symptom, trigger) ==
            [type |-> "symptom_trigger",
             symptom |-> symptom,
             severity |-> "risky",
             found |-> trigger,
             consequence |-> "May trigger or worsen " \o symptom,
             recommendation |-> "Monitor consumption as it may worsen "
                                \o symptom \o "."]
        \* symptomTriggers[symptom.toLowerCase()] || []
        triggers(key) ==
            IF key \in DOMAIN symptomTriggers THEN symptomTriggers[key] ELSE <<>>
        perSymptom(symptom) ==
            IF ~IsString(symptom) THEN <<TypeError>>
            ELSE ConcatMap(LAMBDA trigger :
                             push(someIncludes(lowered, toLowerCase(trigger)), FALSE,
                                  finding(symptom, trigger)),
                           triggers(toLowerCase(symptom)))
    IN  checkerResult(ConcatMap(perSymptom, userSymptoms), ex.food)

checkSymptomTriggers(f, userSymptoms) ==
    LET ex == extractIngredients(f)
        lowered == lowerCased(ex.ingredients)
        finding(symptom, trigger) ==
            [type |-> "symptom_trigger",
             symptom |-> symptom,
             severity |-> "moderate",
             found |-> trigger,
             consequence |-> "May trigger or worsen " \o symptom,
             recommendation |-> "Monitor consumption as it may worsen "
                                \o symptom \o "."]
        \* symptomTriggers[symptom.toLowerCase()] || []
        triggers(key) ==
            IF key \in DOMAIN symptomTriggers THEN symptomTriggers[key] ELSE <<>>
        perSymptom(symptom) ==
            IF ~IsString(symptom) THEN <<TypeError>>
            ELSE ConcatMap(LAMBDA trigger :
                             push(someIncludes(lowered, toLowerCase(trigger)), FALSE,
                                  finding(symptom, trigger)),
                           triggers(toLowerCase(symptom)))
    IN  checkerResult(ConcatMap(perSymptom, userSymptoms), ex.food)

\* adjustForDietaryPreferences without the test of the disease
adjustForDietaryPreferences_AnyDisease(risks, userCtx) ==
    IF ~userCtx.dietaryPreferences.isArray
    THEN [threw |-> TRUE, risks |-> risks]
    ELSE
    LET prefs == Map(toLowerCase, userCtx.dietaryPreferences.items)
        prefersLowSugar == \E i \in 1..Len(prefs) :
                               prefs[i] = "low-sugar" \/ prefs[i] = "low sugar"
        adjust(r) ==
            IF /\ TRUE
               /\ \/ includes(r.found, "sugar")
                  \/ includes(r.found, "glucose")
                  \/ r.found = "heuristic"
            THEN [r EXCEPT !.severity = IF r.severity = "moderate" THEN "risky"
                                        ELSE r.severity]
            ELSE r
    IN  [threw |-> FALSE,
         risks |-> IF prefersLowSugar
                   THEN [risks EXCEPT !.diseases = Map(adjust, risks.diseases)]
                   ELSE risks]

\* adjustForDietaryPreferences assigns risks.diseases; risks is the risks
\* object after the call.  A dietaryPreferences value that is not an array
\* (a bare string) has no map method: the call throws before it assigns.
adjustForDietaryPreferences(risks, userCtx) ==
    IF ~userCtx.dietaryPreferences.isArray
    THEN [threw |-> TRUE, risks |-> risks]
    ELSE
    LET prefs == Map(toLowerCase, userCtx.dietaryPreferences.items)
        prefersLowSugar == \E i \in 1..Len(prefs) :
                               prefs[i] = "low-sugar" \/ prefs[i] = "low sugar"
        adjust(r) ==
            IF /\ toLowerCase(r.disease) = "diabetes"
               /\ \/ includes(r.found, "sugar")
                  \/ includes(r.found, "glucose")
                  \/ r.found = "heuristic"
            THEN [r EXCEPT !.severity = IF r.severity = "moderate" THEN "risky"
                                        ELSE r.severity]
            ELSE r
    IN  [threw |-> FALSE,
         risks |-> IF prefersLowSugar
                   THEN [risks EXCEPT !.diseases = Map(adjust, risks.diseases)]
                   ELSE risks]

\* calculateOverallRisk with the risky test placed before the harmful one
calculateOverallRisk_RiskyFirst(risks) ==
    LET allRisks == risks.allergens \o risks.diseases
                    \o risks.drugInteractions \o risks.symptoms
        some(sev) == \E i \in 1..Len(allRisks) : allRisks[i].severity = sev
    IN  IF some("risky") THEN "risky"
        ELSE IF some("harmful") THEN "harmful"
        ELSE IF some("moderate") THEN "moderate"
        ELSE "safe"

calculateOverallRisk(risks) ==
    LET allRisks == risks.allergens \o risks.diseases
                    \o risks.drugInteractions \o risks.symptoms
        some(sev) == \E i \in 1..Len(allRisks) : allRisks[i].severity = sev
    IN  IF some("harmful") THEN "harmful"
        ELSE IF some("risky") THEN "risky"
        ELSE IF some("moderate") THEN "moderate"
        ELSE "safe"

\* the recommendations returned as pushed, without the Set
uniq_KeepAll(arr) == arr

\* [...new Set(arr)]: each distinct value once, at its first occurrence
RECURSIVE uniq(_)
uniq(arr) ==
    IF arr = <<>> THEN <<>>
    ELSE LET front == uniq(SubSeq(arr, 1, Len(arr) - 1))
             last == arr[Len(arr)]
         IN  IF \E i \in 1..Len(front) : front[i] = last
             THEN front ELSE Append(front, last)

\* The headlines begin with a pictograph in the source (a warning sign, a
\* check mark); the module is ASCII and writes them as [!] and [ok].
HeadlineHarmful == "[!] AVOID this product completely due to serious health risks."
HeadlineRisky == "[!] This product is not recommended for your health profile."
HeadlineModerate == "[!] Consume with caution and in moderation."
HeadlineSafe == "[ok] This product appears safe for your health profile."

\* generateRecommendations without the else branch of the headline
generateRecommendations_NoSafeHeadline(risks, f) ==
    LET headline == IF risks.overallRisk = "harmful" THEN <<HeadlineHarmful>>
                    ELSE IF risks.overallRisk = "risky" THEN <<HeadlineRisky>>
                    ELSE IF risks.overallRisk = "moderate" THEN <<HeadlineModerate>>
                    ELSE <<>>
        allRisks == risks.allergens \o risks.diseases
                    \o risks.drugInteractions \o risks.symptoms
        pushed == ConcatMap(LAMBDA risk : IF risk.recommendation # ""
                                          THEN <<risk.recommendation>> ELSE <<>>,
                            allRisks)
    IN  uniq(headline \o pushed)

generateRecommendations(risks, f) ==
    LET headline == IF risks.overallRisk = "harmful" THEN HeadlineHarmful
                    ELSE IF risks.overallRisk = "risky" THEN HeadlineRisky
                    ELSE IF risks.overallRisk = "moderate" THEN HeadlineModerate
                    ELSE HeadlineSafe
        allRisks == risks.allergens \o risks.diseases
                    \o risks.drugInteractions \o risks.symptoms
        pushed == ConcatMap(LAMBDA risk : IF risk.recommendation # ""
                                          THEN <<risk.recommendation>> ELSE <<>>,
                            allRisks)
    IN  uniq(<<headline>> \o pushed)

\* the names of a profile list: an entry is a plain string or an object with
\* a name; entries whose name is empty or absent are dropped
names(entries) ==
    SelectSeq(Map(LAMBDA e : IF e.isString THEN e.value ELSE e.name, entries),
              LAMBDA n : n # "")

\* the catch block returning the error alone, without the risks object
caught_ErrorOnly(risks) == [error |-> "Failed to analyze health risks"]

\* the catch block of analyzeHealthRisk: the risks object as far as it was
\* filled in, with an error property added
caught(risks) == risks @@ [error |-> "Failed to analyze health risks"]

\* The try block of analyzeHealthRisk, statement by statement.  A state of
\* the block is the risks object as filled in so far, the food object as
\* changed so far, and threw: a statement has thrown, what follows is skipped.
InitialRisks ==
    [allergens |-> <<>>, diseases |-> <<>>, drugInteractions |-> <<>>,
     symptoms |-> <<>>, overallRisk |-> "safe", recommendations |-> <<>>]

\* the first statements read userProfile.allergies and the like: they throw
\* when userProfile is undefined
normalizeStep(f, profile) ==
    [threw |-> ~profile.defined, risks |-> InitialRisks, food |-> f]

\* risks[list] = <the checker's return value>; r is what the checker hands back
assign(st, list, r) ==
    [threw |-> r.threw, food |-> r.food,
     risks |-> IF r.threw THEN st.risks ELSE [st.risks EXCEPT ![list] = r.risks]]

\* if (allergyNames.length > 0) risks.allergens = this.checkAllergenRisks(...)
allergensStep(st, allergyNames) ==
    IF st.threw \/ Len(allergyNames) = 0 THEN st
    ELSE assign(st, "allergens", checkAllergenRisks(st.food, allergyNames))

diseasesStep(st, diseaseNames) ==
    IF st.threw \/ Len(diseaseNames) = 0 THEN st
    ELSE assign(st, "diseases", checkDiseaseRisks(st.food, diseaseNames))

drugInteractionsStep(st, medicationNames) ==
    IF st.threw \/ Len(medicationNames) = 0 THEN st
    ELSE assign(st, "drugInteractions", checkDrugInteractions(st.food, medicationNames))

symptomsStep(st, symptomNames) ==
    IF st.threw \/ Len(symptomNames) = 0 THEN st
    ELSE assign(st, "symptoms", checkSymptomTriggers(st.food, symptomNames))

\* this.adjustForDietaryPreferences(risks, {...}); r is risks after the call
adjusted(st, r) == [threw |-> r.threw, food |-> st.food, risks |-> r.risks]

adjustStep(st, profile) ==
    IF st.threw THEN st
    ELSE adjusted(st, adjustForDietaryPreferences(st.risks,
                          [dietaryPreferences |-> profile.dietaryPreferences]))

overallRiskStep(st) ==
    IF st.threw THEN st
    ELSE [st EXCEPT !.risks.overallRisk = calculateOverallRisk(st.risks)]

recommendationsStep(st) ==
    IF st.threw THEN st
    ELSE [st EXCEPT !.risks.recommendations = generateRecommendations(st.risks, st.food)]

\* analyzeHealthRisk(food, userProfile): risks is the object the returned
\* promise resolves to, food is the food object after the call.
returned(st) ==
    [risks |-> IF st.threw THEN caught(st.risks) ELSE st.risks, food |-> st.food]

analyzeHealthRisk(f, profile) ==
    returned(
      recommendationsStep(
        overallRiskStep(
          adjustStep(
            symptomsStep(
              drugInteractionsStep(
                diseasesStep(
                  allergensStep(normalizeStep(f, profile), names(profile.allergies)),
                  names(profile.diseases)),
                names(profile.medications)),
              names(profile.symptoms)),
            profile))))

(***************************************************************************)
(* Inputs: the foods and profiles the callers pass in                      *)
(***************************************************************************)
NoObject == [defined |-> FALSE, props |-> <<>>]
Object(props) == [defined |-> TRUE, props |-> props]
NoNutrition == [defined |-> FALSE, macronutrients |-> NoObject,
                micronutrients |-> NoObject, props |-> <<>>]
\* nutrition: {macronutrients: macro, micronutrients: micro}
Nutrition(macro, micro) == [defined |-> TRUE, macronutrients |-> macro,
                            micronutrients |-> micro, props |-> <<>>]
\* nutrition: {sodium: 700, ...}, the shape of the Food schema
FlatNutrition(props) == [defined |-> TRUE, macronutrients |-> NoObject,
                         micronutrients |-> NoObject, props |-> props]

NoIngredients == [kind |-> "none", str |-> "", arr |-> <<>>]
IngredientString(s) == [kind |-> "string", str |-> s, arr |-> <<>>]
IngredientArray(a) == [kind |-> "array", str |-> "", arr |-> a]

Food(name, brand, category, ingredients, nutrition) ==
    [name |-> name, brand |-> brand, category |-> category,
     ingredients |-> ingredients, nutrition |-> nutrition]

Foods ==
    { Food("Peanut Butter Cookies", "", "",
           IngredientString("wheat flour, peanut butter, sugar"), NoNutrition),
      Food("Glucose Biscuits", "", "snacks", NoIngredients, NoNutrition),
      Food("Spring Water", "Aqua", "beverages", NoIngredients, NoNutrition),
      Food("drink", "", "soft", IngredientArray(<<"water">>), NoNutrition),
      Food("Trail Mix", "", "snacks",
           IngredientArray(<<"Peanuts", "almonds", "chocolate">>), NoNutrition),
      Food(NotAString, "", "snacks", IngredientArray(<<"peanuts">>), NoNutrition),
      Food("Rice Crackers", "", "snacks",
           IngredientArray(<<"rice", NotAString>>), NoNutrition),
      Food("Potato Chips", "", "snacks", IngredientString("potato, oil"),
           Nutrition(Object(("fat" :> 30)), Object(("sodium" :> 700)))),
      Food("Potato Crisps", "", "snacks", IngredientString("potato, oil"),
           FlatNutrition(("sodium" :> 700))),
      Food("Oat Flakes", "", "grains", IngredientString("oats"),
           Nutrition(NoObject, Object(("sodium" :> 600)))),
      Food("Penne Pasta", "", "grains", IngredientString("durum wheat semolina"),
           NoNutrition),
      Food("Corn Flakes", "", "grains", IngredientString("corn"),
           Nutrition(Object(("carbohydrates" :> 84)), NoObject)),
      Food("Grapefruit Juice", "", "beverages",
           IngredientString("grapefruit, alcohol, caffeine"), NoNutrition),
      Food("Contains PEANUTS", "", "", NoIngredients, NoNutrition),
      Food("contains peanuts", "", "", NoIngredients, NoNutrition) }

Str(s) == [isString |-> TRUE, value |-> s, name |-> ""]
Named(n) == [isString |-> FALSE, value |-> "", name |-> n]
Prefs(items) == [isArray |-> TRUE, items |-> items]
\* dietaryPreferences: 'low-sugar', a string where an array is expected
PrefsString == [isArray |-> FALSE, items |-> <<>>]

Profile(allergies, diseases, medications, symptoms, dietaryPreferences) ==
    [defined |-> TRUE, allergies |-> allergies, diseases |-> diseases,
     medications |-> medications, symptoms |-> symptoms,
     dietaryPreferences |-> dietaryPreferences]

\* analyzeHealthRisk(food, undefined)
NoProfile ==
    [defined |-> FALSE, allergies |-> <<>>, diseases |-> <<>>,
     medications |-> <<>>, symptoms |-> <<>>, dietaryPreferences |-> Prefs(<<>>)]

Profiles ==
    { NoProfile,
      Profile(<<>>, <<>>, <<>>, <<>>, Prefs(<<>>)),
      Profile(<<Named("peanuts")>>, <<>>, <<>>, <<>>, Prefs(<<>>)),
      Profile(<<>>, <<Named("diabetes")>>, <<>>, <<>>, Prefs(<<>>)),
      Profile(<<>>, <<Named("hypertension")>>, <<>>, <<>>, Prefs(<<>>)),
      Profile(<<Str("Nuts")>>, <<Named("Diabetes")>>, <<>>, <<>>, Prefs(<<"vegan">>)),
      Profile(<<Named("peanut")>>, <<Named("diabetes")>>, <<>>, <<>>, PrefsString),
      Profile(<<>>, <<Named("diabetes")>>, <<>>, <<>>, Prefs(<<"low-sugar">>)),
      Profile(<<>>, <<>>, <<Named("statins"), Named("metformin")>>,
              <<Named("headache")>>, Prefs(<<>>)),
      Profile(<<Named("nuts")>>, <<Named("diabetes"), Named("gout")>>,
              <<Named("metformin")>>, <<Named("Heartburn")>>, Prefs(<<"Low Sugar">>)),
      Profile(<<Named("kiwi"), Named("")>>, <<Named("flu")>>, <<Named("aspirin")>>,
              <<Named("cough")>>, Prefs(<<>>)) }

(***************************************************************************)
(* Users, food documents, notifications                                    *)
(***************************************************************************)
UserIds == {"u1", "u2"}

\* the defaults of userSchema.notificationPreferences
DefaultNotificationPreferences ==
    [channels |-> [email |-> TRUE, whatsapp |-> FALSE, sms |-> FALSE, inApp |-> TRUE],
     expiryDays |-> 3,
     notificationTime |-> "09:00",
     types |-> [expiry |-> TRUE, healthWarnings |-> TRUE, suggestions |-> TRUE,
                summaries |-> TRUE]]

\* a User document: the health profile and the fields notifications use
UserDoc(id, email, phone, whatsapp, profile) ==
    profile @@ [_id |-> id, email |-> email, phone |-> phone, whatsapp |-> whatsapp,
                notificationPreferences |-> DefaultNotificationPreferences,
                notifications |-> <<>>]

RegisteredUsers ==
    ("u1" :> UserDoc("u1", "u1@example.com", "", "",
                     Profile(<<Str("Nuts")>>, <<Named("Diabetes")>>, <<>>, <<>>,
                             Prefs(<<>>))))
 @@ ("u2" :> UserDoc("u2", "u2@example.com", "+15550100", "+15550100",
                     Profile(<<>>, <<Named("diabetes")>>, <<>>, <<>>,
                             Prefs(<<"low-sugar">>))))

\* a Food document: the fields the engine reads and _id, userId, allergens,
\* expiryDate (in days from today)
FoodDoc(id, userId, f, allergens, expiryDate) ==
    f @@ [_id |-> id, userId |-> userId, allergens |-> allergens,
          expiryDate |-> expiryDate]

NoFoodDoc == FoodDoc(0, "", Food("", "", "", NoIngredients, NoNutrition), <<>>, 0)

\* nothing handled yet
NoRequest ==
    [op |-> "none", user |-> "", food |-> NoFoodDoc, risks |-> InitialRisks,
     status |-> 0, sent |-> <<>>]

NotifyIdle ==
    /\ users = RegisteredUsers
    /\ inventory = <<>>
    /\ emailTransporter = FALSE
    /\ twilioClient = FALSE
    /\ requests = 0
    /\ lastRequest = NoRequest

\* no report asked for yet
NoReport == [route |-> "none", user |-> "", perFood |-> <<>>]

SocketIds == {"s1", "s2"}

\* no socket is open
SocketIdle ==
    /\ connections = [s \in SocketIds |-> ""]
    /\ rooms = [s \in SocketIds |-> {}]
    /\ received = {}

(***************************************************************************)
(* The service called on one food object                                   *)
(***************************************************************************)
Constructor ==
    /\ allergenDatabase = initializeAllergenDatabase
    /\ diseaseRiskDatabase = initializeDiseaseRiskDatabase
    /\ drugInteractionDatabase = initializeDrugInteractionDatabase

AggIdle == aggIn = [allergens |-> <<>>, diseases |-> <<>>,
                    drugInteractions |-> <<>>, symptoms |-> <<>>]
           /\ aggOut = "none" /\ aggFirst = "none"

\* no method called on its own
NoProbe == [fn |-> "none"]

AsGiven == [food |-> "same", profile |-> "same"]

CaseIdle == caseChange = AsGiven /\ caseVerdicts = <<>>

\* the order of the statements of analyzeHealthRisk
CodeOrder == <<"allergens", "diseases", "drugInteractions", "symptoms">>

OrderIdle == order = CodeOrder /\ orderVerdicts = <<>>

Init ==
    /\ Constructor
    /\ food \in Foods
    /\ userProfile \in Profiles
    /\ food0 = food
    /\ userProfile0 = userProfile
    /\ verdicts = <<>>
    /\ AggIdle
    /\ CaseIdle
    /\ OrderIdle
    /\ allergenCalls = <<>>
    /\ probe = NoProbe
    /\ NotifyIdle
    /\ SocketIdle
    /\ report = NoReport

\* a caller awaits analyzeHealthRisk(food, userProfile) and keeps the verdict
AnalyzeHealthRisk ==
    /\ Len(verdicts) < MaxCalls
    /\ LET r == analyzeHealthRisk(food, userProfile)
       IN  /\ verdicts' = Append(verdicts, r.risks)
           /\ food' = r.food
    /\ UNCHANGED <<knowledgeVars, userProfile, food0, userProfile0, aggVars, caseVars, orderVars,
                   allergenCalls, probe, notifyVars, socketVars, report>>

Next == AnalyzeHealthRisk

Spec == Init /\ [][Next]_vars

(***************************************************************************)
(* calculateOverallRisk on its own, on arbitrary finding lists             *)
(***************************************************************************)
ListNames == <<"allergens", "diseases", "drugInteractions", "symptoms">>
FindingSeverities == {"moderate", "risky", "harmful"}

\* the risks object whose lists hold, in order, the findings of flat: flat
\* is a sequence of <<list, severity>> pairs
RisksOf(flat) ==
    [l \in {ListNames[n] : n \in 1..4} |->
        Map(LAMBDA e : [severity |-> e[2]],
            SelectSeq(flat, LAMBDA e : e[1] = l))]

AggInputs ==
    { RisksOf(flat) :
        flat \in UNION { [1..n -> {ListNames[k] : k \in 1..4} \X FindingSeverities] :
                         n \in 0..MaxFindings } }

InitAggregate ==
    /\ Constructor
    /\ food = Food("Spring Water", "Aqua", "beverages", NoIngredients, NoNutrition)
    /\ userProfile = NoProfile
    /\ food0 = food
    /\ userProfile0 = userProfile
    /\ verdicts = <<>>
    /\ aggIn \in AggInputs
    /\ aggOut = "none"
    /\ aggFirst = "none"
    /\ CaseIdle
    /\ OrderIdle
    /\ allergenCalls = <<>>
    /\ probe = NoProbe
    /\ NotifyIdle
    /\ SocketIdle
    /\ report = NoReport

Calculate ==
    /\ aggOut = "none"
    /\ aggOut' = calculateOverallRisk(aggIn)
    /\ aggFirst' = IF aggFirst = "none" THEN aggOut' ELSE aggFirst
    /\ UNCHANGED <<knowledgeVars, callVars, aggIn, caseVars, orderVars,
                   allergenCalls, probe, notifyVars, socketVars, report>>

\* the same findings, two neighbours of one list exchanged
ReorderFindings ==
    /\ \E n \in 1..4 : \E i \in 1..(Len(aggIn[ListNames[n]]) - 1) :
         LET l == ListNames[n]
             old == aggIn[l]
         IN  aggIn' = [aggIn EXCEPT ![l] = [old EXCEPT ![i] = old[i + 1],
                                                       ![i + 1] = old[i]]]
    /\ aggOut' = "none"
    /\ UNCHANGED <<knowledgeVars, callVars, aggFirst, caseVars, orderVars,
                   allergenCalls, probe, notifyVars, socketVars, report>>

\* the same findings, two lists exchanged
ReorderLists ==
    /\ \E n, k \in 1..4 :
         /\ n < k
         /\ aggIn[ListNames[n]] # aggIn[ListNames[k]]
         /\ aggIn' = [aggIn EXCEPT ![ListNames[n]] = aggIn[ListNames[k]],
                                   ![ListNames[k]] = aggIn[ListNames[n]]]
    /\ aggOut' = "none"
    /\ UNCHANGED <<knowledgeVars, callVars, aggFirst, caseVars, orderVars,
                   allergenCalls, probe, notifyVars, socketVars, report>>

NextAggregate == Calculate \/ ReorderFindings \/ ReorderLists

SpecAggregate == InitAggregate /\ [][NextAggregate]_vars

(***************************************************************************)
(* One food and profile evaluated as given and with the letter case of     *)
(* their texts changed                                                     *)
(***************************************************************************)
UpperChar(c) ==
    IF \E u \in DOMAIN UpperToLower : UpperToLower[u] = c
    THEN CHOOSE u \in DOMAIN UpperToLower : UpperToLower[u] = c
    ELSE c

\* String.prototype.toUpperCase on a string, the string taken by halves
RECURSIVE toUpperCase(_)
toUpperCase(s) ==
    IF Len(s) = 0 THEN ""
    ELSE IF Len(s) = 1 THEN UpperChar(s)
    ELSE toUpperCase(SubSeq(s, 1, Len(s) \div 2))
         \o toUpperCase(SubSeq(s, Len(s) \div 2 + 1, Len(s)))

CaseModes == {"same", "upper", "lower"}

\* the text s in another letter case; a value that is not a string is kept
changeCase(mode, s) ==
    IF ~IsString(s) \/ mode = "same" THEN s
    ELSE IF mode = "upper" THEN toUpperCase(s)
    ELSE toLowerCase(s)

\* the food with its name, brand, category and ingredients in another case
changeCaseFood(mode, f) ==
    [f EXCEPT !.name = changeCase(mode, f.name),
              !.brand = changeCase(mode, f.brand),
              !.category = changeCase(mode, f.category),
              !.ingredients.str = changeCase(mode, f.ingredients.str),
              !.ingredients.arr = [i \in 1..Len(f.ingredients.arr) |->
                                      changeCase(mode, f.ingredients.arr[i])]]

\* the profile with the names of its entries in another case
changeCaseProfile(mode, profile) ==
    LET entries(list) ==
            [i \in 1..Len(list) |->
                [list[i] EXCEPT !.value = changeCase(mode, list[i].value),
                                !.name = changeCase(mode, list[i].name)]]
    IN  [profile EXCEPT !.allergies = entries(profile.allergies),
                        !.diseases = entries(profile.diseases),
                        !.medications = entries(profile.medications),
                        !.symptoms = entries(profile.symptoms)]

InitCase ==
    /\ Constructor
    /\ food \in Foods
    /\ userProfile \in Profiles
    /\ food0 = food
    /\ userProfile0 = userProfile
    /\ verdicts = <<>>
    /\ AggIdle
    /\ caseChange \in [food : CaseModes, profile : CaseModes]
    /\ caseVerdicts = <<>>
    /\ OrderIdle
    /\ allergenCalls = <<>>
    /\ probe = NoProbe
    /\ NotifyIdle
    /\ SocketIdle
    /\ report = NoReport

\* two callers await analyzeHealthRisk, one with the food and profile as
\* given, one with copies of them in another letter case
EvaluateBothCases ==
    /\ caseVerdicts = <<>>
    /\ caseVerdicts' =
          <<analyzeHealthRisk(food, userProfile).risks,
            analyzeHealthRisk(changeCaseFood(caseChange.food, food),
                              changeCaseProfile(caseChange.profile, userProfile)).risks>>
    /\ food' = analyzeHealthRisk(food, userProfile).food
    /\ UNCHANGED <<knowledgeVars, userProfile, food0, userProfile0, verdicts,
                   aggVars, caseChange, orderVars,
                   allergenCalls, probe, notifyVars, socketVars, report>>

NextCase == EvaluateBothCases

SpecCase == InitCase /\ [][NextCase]_vars

(***************************************************************************)
(* The four checkers of analyzeHealthRisk run in another order             *)
(***************************************************************************)
\* one of the four guarded assignments of the try block
checkerStep(st, which, profile) ==
    CASE which = "allergens" -> allergensStep(st, names(profile.allergies))
      [] which = "diseases" -> diseasesStep(st, names(profile.diseases))
      [] which = "drugInteractions" ->
             drugInteractionsStep(st, names(profile.medications))
      [] which = "symptoms" -> symptomsStep(st, names(profile.symptoms))

\* analyzeHealthRisk with its four guarded assignments in the order ord
analyzeInOrder(f, profile, ord) ==
    returned(
      recommendationsStep(
        overallRiskStep(
          adjustStep(
            checkerStep(
              checkerStep(
                checkerStep(
                  checkerStep(normalizeStep(f, profile), ord[1], profile),
                  ord[2], profile),
                ord[3], profile),
              ord[4], profile),
            profile))))

Orders ==
    { ord \in [1..4 -> {CodeOrder[n] : n \in 1..4}] :
        \A i, j \in 1..4 : i # j => ord[i] # ord[j] }

InitOrder ==
    /\ Constructor
    /\ food \in Foods
    /\ userProfile \in Profiles
    /\ food0 = food
    /\ userProfile0 = userProfile
    /\ verdicts = <<>>
    /\ AggIdle
    /\ CaseIdle
    /\ order \in Orders
    /\ orderVerdicts = <<>>
    /\ allergenCalls = <<>>
    /\ probe = NoProbe
    /\ NotifyIdle
    /\ SocketIdle
    /\ report = NoReport

\* the food and profile evaluated by the code as written and, on a copy of
\* the food, with the checkers in the order order
EvaluateInOrder ==
    /\ orderVerdicts = <<>>
    /\ orderVerdicts' = <<analyzeHealthRisk(food, userProfile).risks,
                          analyzeInOrder(food, userProfile, order).risks>>
    /\ food' = analyzeHealthRisk(food, userProfile).food
    /\ UNCHANGED <<knowledgeVars, userProfile, food0, userProfile0, verdicts,
                   aggVars, caseVars, order,
                   allergenCalls, probe, notifyVars, socketVars, report>>

NextOrder == EvaluateInOrder

SpecOrder == InitOrder /\ [][NextOrder]_vars

(***************************************************************************)
(* checkAllergenRisks called on its own                                    *)
(***************************************************************************)
\* the allergies lists of the profiles
AllergyLists ==
    { <<Named("peanuts")>>,
      <<Str("Nuts")>>,
      <<Named("nuts"), Named("Peanuts")>>,
      <<Named("Gluten"), Named("kiwi"), Str("almond")>>,
      <<Named("dairy"), Named("soy"), Named("")>>,
      <<Str("Chocolate"), Str("oil")>> }

InitAllergens ==
    /\ Constructor
    /\ food \in Foods
    /\ userProfile \in {Profile(allergies, <<>>, <<>>, <<>>, Prefs(<<>>)) :
                           allergies \in AllergyLists}
    /\ food0 = food
    /\ userProfile0 = userProfile
    /\ verdicts = <<>>
    /\ AggIdle
    /\ CaseIdle
    /\ OrderIdle
    /\ allergenCalls = <<>>
    /\ probe = NoProbe
    /\ NotifyIdle
    /\ SocketIdle
    /\ report = NoReport

\* what the caller of checkAllergenRisks gets: the array, or an exception
handedBack(r) == [threw |-> r.threw, risks |-> r.risks]

\* risks.allergens = this.checkAllergenRisks(food, allergyNames)
CheckAllergenRisks ==
    /\ Len(allergenCalls) < MaxCalls
    /\ allergenCalls' =
          Append(allergenCalls,
                 handedBack(checkAllergenRisks(food, names(userProfile.allergies))))
    /\ food' = checkAllergenRisks(food, names(userProfile.allergies)).food
    /\ UNCHANGED <<knowledgeVars, userProfile, food0, userProfile0, verdicts,
                   aggVars, caseVars, orderVars, probe, notifyVars, socketVars, report>>

NextAllergens == CheckAllergenRisks

SpecAllergens == InitAllergens /\ [][NextAllergens]_vars

(***************************************************************************)
(* NotificationService and the routes that use it                          *)
(***************************************************************************)
\* number of requests and service calls handled in a run
MaxRequests == 2

\* what results holds for a channel: null when the channel was not called,
\* else what the channel's method returned
NotCalled == [called |-> FALSE, success |-> FALSE]
Called(success) == [called |-> TRUE, success |-> success]

\* the channel methods return success false when their client is not
\* configured; a configured client is taken to deliver
sendEmailNotification(configured) == Called(configured)
sendSMSNotification(configured) == Called(configured)
sendWhatsAppNotification(configured) == Called(configured)

\* sendNotification(user, notification): the results object.  preferences
\* is user.notificationPreferences; preferences.email and the like are read
\* from it directly, and a property the object lacks reads as undefined.
sendNotification(user, emailConfigured, twilioConfigured) ==
    LET preferences == user.notificationPreferences
        truthy(key) == key \in DOMAIN preferences /\ preferences[key] = TRUE
        isFalse(key) == key \in DOMAIN preferences /\ preferences[key] = FALSE
    IN  [email |-> IF truthy("email") /\ user.email # ""
                   THEN sendEmailNotification(emailConfigured) ELSE NotCalled,
         sms |-> IF truthy("sms") /\ user.phone # ""
                 THEN sendSMSNotification(twilioConfigured) ELSE NotCalled,
         whatsapp |-> IF truthy("whatsapp") /\ user.whatsapp # ""
                      THEN sendWhatsAppNotification(twilioConfigured) ELSE NotCalled,
         inApp |-> IF ~isFalse("inApp") THEN Called(TRUE) ELSE NotCalled]

\* storeInAppNotification: the User collection after the $push (createdAt is
\* left out: the model has no clock)
storeInAppNotification(userId, notification) ==
    [users EXCEPT ![userId].notifications =
        Append(@, notification @@ [read |-> FALSE])]

\* sendRealtimeNotification: io.to(`user-${userId}`).emit reaches every
\* socket that has joined the room
sendRealtimeNotification(userId) ==
    {[socket |-> s, belongsTo |-> connections[s], user |-> userId] :
        s \in {c \in SocketIds : connections[c] # "" /\ userId \in rooms[c]}}

\* sendHealthRiskAlert with the severity label WARNING for every verdict
sendHealthRiskAlert_AlwaysWarning(user, f, risks) ==
    IF risks.overallRisk = "safe" THEN <<>>
    ELSE <<[type |-> "health_risk",
            title |-> "[!] Health WARNING: " \o ToStr(f.name),
            message |-> "The food item \"" \o ToStr(f.name) \o "\" "
                \o (IF f.brand # "" THEN "by " \o ToStr(f.brand) ELSE "")
                \o " has been flagged with health risks based on your profile.",
            foodItems |-> <<[name |-> f.name, brand |-> f.brand,
                             expiryDate |-> f.expiryDate]>>,
            recommendations |-> risks.recommendations]>>

\* sendHealthRiskAlert(user, food, risks): the notifications it hands to
\* sendNotification.  The pictographs of the titles are written [!!] (siren)
\* and [!] (warning sign).
sendHealthRiskAlert(user, f, risks) ==
    IF risks.overallRisk = "safe" THEN <<>>
    ELSE LET severity == IF risks.overallRisk = "harmful" THEN "CRITICAL" ELSE "WARNING"
             emoji == IF risks.overallRisk = "harmful" THEN "[!!]" ELSE "[!]"
         IN  <<[type |-> "health_risk",
                title |-> emoji \o " Health " \o severity \o ": " \o ToStr(f.name),
                message |-> "The food item \"" \o ToStr(f.name) \o "\" "
                    \o (IF f.brand # "" THEN "by " \o ToStr(f.brand) ELSE "")
                    \o " has been flagged with health risks based on your profile.",
                foodItems |-> <<[name |-> f.name, brand |-> f.brand,
                                 expiryDate |-> f.expiryDate]>>,
                recommendations |-> risks.recommendations]>>

\* the state after sendNotification(users[uid], n) for every n of ns, and
\* the record of the request: ns holds at most one notification
Handled(op, uid, f, risks, status, ns) ==
    LET results == sendNotification(users[uid], emailTransporter, twilioClient)
        stored == ns # <<>> /\ results.inApp.called
    IN  /\ users' = IF stored THEN storeInAppNotification(uid, ns[1]) ELSE users
        /\ received' = IF stored THEN received \cup sendRealtimeNotification(uid)
                       ELSE received
        /\ lastRequest' = [op |-> op, user |-> uid, food |-> f, risks |-> risks,
                           status |-> status,
                           sent |-> [i \in 1..Len(ns) |->
                                        [notification |-> ns[i], results |-> results]]]
        /\ requests' = requests + 1

\* the methods of the HealthRiskService object
HealthRiskServiceMethods ==
    {"initializeAllergenDatabase", "initializeDiseaseRiskDatabase",
     "initializeDrugInteractionDatabase", "analyzeHealthRisk", "checkAllergenRisks",
     "checkDiseaseRisks", "checkDrugInteractions", "checkSymptomTriggers",
     "extractIngredients", "checkNutritionContent", "heuristicHighRiskFor",
     "adjustForDietaryPreferences", "calculateOverallRisk",
     "generateRecommendations", "getAlternativeSuggestions"}

\* foods as Mongoose holds them: ingredients is always an array
NewFoods ==
    { Food("Trail Mix", "", "snacks",
           IngredientArray(<<"Peanuts", "almonds", "chocolate">>), NoNutrition),
      Food("Penne Pasta", "", "grains", IngredientArray(<<"durum wheat semolina">>),
           NoNutrition),
      Food("Spring Water", "Aqua", "beverages", IngredientArray(<<>>), NoNutrition) }

\* request bodies of POST /api/foods
AddFoodBodies ==
    { [food |-> Food("Trail Mix", "", "snacks",
                     IngredientArray(<<"Peanuts", "almonds", "chocolate">>), NoNutrition),
       allergens |-> <<"peanuts", "tree-nuts">>, expiryDate |-> 30],
      [food |-> Food("Trail Mix", "", "snacks",
                     IngredientArray(<<"Peanuts", "almonds", "chocolate">>), NoNutrition),
       allergens |-> <<>>, expiryDate |-> 30],
      [food |-> Food("Penne Pasta", "", "grains",
                     IngredientArray(<<"durum wheat semolina">>), NoNutrition),
       allergens |-> <<>>, expiryDate |-> 2],
      [food |-> Food("Spring Water", "Aqua", "beverages", IngredientArray(<<>>),
                     NoNutrition),
       allergens |-> <<>>, expiryDate |-> 30] }

\* the notification of the add-food route for a food that expires soon
expiryWarning(f) ==
    [type |-> "expiry_warning",
     title |-> "[!] Food Expiring Soon: " \o ToStr(f.name),
     message |-> ToStr(f.name) \o " " \o (IF f.brand # "" THEN "by " \o f.brand ELSE "")
                 \o " expires soon. Plan to use it soon!",
     foodItems |-> <<[name |-> f.name, brand |-> f.brand, expiryDate |-> f.expiryDate]>>,
     recommendations |-> <<"Plan a meal using this ingredient",
                           "Consider freezing if possible",
                           "Share with friends or family">>]

\* router.post('/'): the food is saved, then the health check is made only
\* for a food with declared allergens, and it calls
\* healthRiskService.analyzeHealthRisks, which is not a method of the
\* service: the call throws and the catch block answers 400
AddFood ==
    /\ requests < MaxRequests
    /\ \E uid \in UserIds, body \in AddFoodBodies :
         LET doc == FoodDoc(Len(inventory) + 1, uid, body.food, body.allergens,
                            body.expiryDate)
             typeError == /\ Len(doc.allergens) > 0
                          /\ "analyzeHealthRisks" \notin HealthRiskServiceMethods
             expiresSoon == doc.expiryDate <= 3 /\ doc.expiryDate >= 0
         IN  /\ inventory' = Append(inventory, doc)
             /\ IF typeError
                THEN Handled("addFood", uid, doc, InitialRisks, 400, <<>>)
                ELSE Handled("addFood", uid, doc, InitialRisks, 201,
                             IF expiresSoon THEN <<expiryWarning(doc)>> ELSE <<>>)
    /\ UNCHANGED <<knowledgeVars, engineVars, emailTransporter, twilioClient,
                   connections, rooms, report>>

testNotification ==
    [type |-> "test",
     title |-> "[test] Test Notification",
     message |-> "This is a test notification to verify your notification settings are working correctly.",
     recommendations |-> <<"Your notification system is working properly!">>]

\* router.post('/test')
TestNotification ==
    /\ requests < MaxRequests
    /\ \E uid \in UserIds :
         Handled("test", uid, NoFoodDoc, InitialRisks, 200, <<testNotification>>)
    /\ UNCHANGED <<knowledgeVars, engineVars, inventory, emailTransporter,
                   twilioClient, connections, rooms, report>>

\* the call sendHealthRiskAlert(user, food, risks), analysis being what
\* analyzeHealthRisk returned for the food and the user
alertHandled(uid, analysis) ==
    Handled("alert", uid, analysis.food, analysis.risks, 0,
            sendHealthRiskAlert(users[uid], analysis.food, analysis.risks))

SendHealthRiskAlert ==
    /\ requests < MaxRequests
    /\ \E uid \in UserIds, f \in NewFoods :
         alertHandled(uid, analyzeHealthRisk(FoodDoc(1, uid, f, <<>>, 30), users[uid]))
    /\ UNCHANGED <<knowledgeVars, engineVars, inventory, emailTransporter,
                   twilioClient, connections, rooms, report>>

\* the channels objects of the request bodies of PUT /notification-preferences
ChannelBodies ==
    { [email |-> TRUE, inApp |-> FALSE],
      [email |-> FALSE, sms |-> TRUE, whatsapp |-> TRUE, inApp |-> TRUE] }

\* router.put('/notification-preferences') with channels in the body
UpdateNotificationPreferences ==
    /\ requests < MaxRequests
    /\ \E uid \in UserIds, channels \in ChannelBodies :
         LET Boolean(key) == key \in DOMAIN channels /\ channels[key]
         IN  /\ users' = [users EXCEPT ![uid].notificationPreferences.channels =
                             [email |-> Boolean("email"), sms |-> Boolean("sms"),
                              whatsapp |-> Boolean("whatsapp"),
                              inApp |-> Boolean("inApp")]]
             /\ lastRequest' = [op |-> "preferences", user |-> uid, food |-> NoFoodDoc,
                                risks |-> InitialRisks, status |-> 200, sent |-> <<>>]
    /\ requests' = requests + 1
    /\ UNCHANGED <<knowledgeVars, engineVars, inventory, emailTransporter,
                   twilioClient, socketVars, report>>

\* the engine's variables when only the routes are exercised
EngineIdle ==
    /\ food = Food("Spring Water", "Aqua", "beverages", NoIngredients, NoNutrition)
    /\ userProfile = NoProfile
    /\ food0 = food
    /\ userProfile0 = userProfile
    /\ verdicts = <<>>
    /\ AggIdle
    /\ CaseIdle
    /\ OrderIdle
    /\ allergenCalls = <<>>
    /\ probe = NoProbe

InitNotify ==
    /\ Constructor
    /\ EngineIdle
    /\ users = RegisteredUsers
    /\ inventory = <<>>
    /\ emailTransporter \in BOOLEAN
    /\ twilioClient \in BOOLEAN
    /\ requests = 0
    /\ lastRequest = NoRequest
    /\ SocketIdle
    /\ report = NoReport

NextNotify ==
    UpdateNotificationPreferences \/ TestNotification \/ SendHealthRiskAlert \/ AddFood

SpecNotify == InitNotify /\ [][NextNotify]_vars

(***************************************************************************)
(* Socket.IO: connections and rooms                                        *)
(***************************************************************************)
\* io.on('connection'): a client opens a socket; the user the client is
\* logged in as is known to the client alone
Connect ==
    /\ \E s \in SocketIds, uid \in UserIds :
         /\ connections[s] = ""
         /\ connections' = [connections EXCEPT ![s] = uid]
         /\ rooms' = [rooms EXCEPT ![s] = {}]
    /\ UNCHANGED <<knowledgeVars, engineVars, notifyVars, received, report>>

\* socket.on('join-user-room', userId): userId is what the client sends
JoinUserRoom ==
    /\ \E s \in SocketIds, userId \in UserIds :
         /\ connections[s] # ""
         /\ rooms' = [rooms EXCEPT ![s] = @ \cup {userId}]
    /\ UNCHANGED <<knowledgeVars, engineVars, notifyVars, connections, received, report>>

\* socket.on('disconnect'): Socket.IO takes the socket out of its rooms
Disconnect ==
    /\ \E s \in SocketIds :
         /\ connections[s] # ""
         /\ connections' = [connections EXCEPT ![s] = ""]
         /\ rooms' = [rooms EXCEPT ![s] = {}]
    /\ UNCHANGED <<knowledgeVars, engineVars, notifyVars, received, report>>

InitSocket ==
    /\ Constructor
    /\ EngineIdle
    /\ NotifyIdle
    /\ SocketIdle
    /\ report = NoReport

NextSocket == Connect \/ JoinUserRoom \/ Disconnect \/ TestNotification

SpecSocket == InitSocket /\ [][NextSocket]_vars

(***************************************************************************)
(* Reports: GET /health-insights and GET /export/pdf                       *)
(***************************************************************************)
\* largest number of foods in a user's inventory
MaxInventory == 5

\* the foods a user may have saved, each with its own expiry date
Pantry ==
    <<Food("Trail Mix", "", "snacks",
           IngredientArray(<<"Peanuts", "almonds", "chocolate">>), NoNutrition),
      Food("Rice Crackers", "", "snacks", IngredientArray(<<"rice">>), NoNutrition),
      Food("Corn Chips", "Crunch", "snacks", IngredientArray(<<"corn", "oil">>),
           NoNutrition),
      Food("Popcorn", "", "snacks", IngredientArray(<<"corn">>), NoNutrition),
      Food("Salted Pretzels", "", "snacks", IngredientArray(<<"flour", "salt">>),
           NoNutrition),
      Food("Spring Water", "Aqua", "beverages", IngredientArray(<<>>), NoNutrition),
      Food("Penne Pasta", "", "grains", IngredientArray(<<"durum wheat semolina">>),
           NoNutrition)>>

\* the elements of arr at the positions of keep, in order or in reverse
RECURSIVE Picked(_, _, _)
Picked(arr, keep, reversed) ==
    IF arr = <<>> THEN <<>>
    ELSE LET rest == Picked(Tail(arr), keep, reversed)
             here == IF Head(arr)._id \in keep THEN <<Head(arr)>> ELSE <<>>
         IN  IF reversed THEN rest \o here ELSE here \o rest

\* the inventories of owner: up to MaxInventory foods of the pantry
Inventories(owner) ==
    { Picked([i \in 1..Len(Pantry) |-> FoodDoc(i, owner, Pantry[i], <<>>, 10 + i)],
             keep, reversed) :
        keep \in {k \in SUBSET (1..Len(Pantry)) : Cardinality(k) <= MaxInventory},
        reversed \in BOOLEAN }

\* Food.find({ userId })
find(userId) == SelectSeq(inventory, LAMBDA f : f.userId = userId)

\* .sort({ expiryDate: 1 }); the expiry dates of an inventory differ
RECURSIVE sortByExpiryDate(_)
sortByExpiryDate(docs) ==
    IF docs = <<>> THEN <<>>
    ELSE LET first == CHOOSE i \in 1..Len(docs) :
                          \A j \in 1..Len(docs) : docs[i].expiryDate <= docs[j].expiryDate
         IN  <<docs[first]>>
             \o sortByExpiryDate(SelectSeq(docs, LAMBDA f : f._id # docs[first]._id))

\* { food, risk } of the Promise.all: every food is its own object and
\* analyzeHealthRisk runs to its end without yielding
analyzedItem(analysis) == [food |-> analysis.food, risk |-> analysis.risks]

analyzeAll(docs, user) ==
    [i \in 1..Len(docs) |-> analyzedItem(analyzeHealthRisk(docs[i], user))]

\* arr.slice(0, n)
slice(arr, n) == SubSeq(arr, 1, IF Len(arr) < n THEN Len(arr) ELSE n)

\* findAlternatives with the limit of three left out
findAlternatives_NoLimit(f, safeFoods) ==
    LET category == IF f.category # "" THEN f.category ELSE "other"
        candidates ==
            SelectSeq(safeFoods,
                      LAMBDA sf : /\ (IF sf.category # "" THEN sf.category ELSE "other")
                                        = category
                                  /\ sf._id # f._id)
        list == IF Len(candidates) > 0 THEN candidates ELSE safeFoods
    IN  [i \in 1..Len(list) |->
            [id |-> list[i]._id, name |-> list[i].name, brand |-> list[i].brand,
             category |-> IF list[i].category # "" THEN list[i].category ELSE "other"]]

\* findAlternatives(food) of GET /health-insights; safeFoods is the list the
\* route computed
findAlternatives(f, safeFoods) ==
    LET category == IF f.category # "" THEN f.category ELSE "other"
        candidates ==
            SelectSeq(safeFoods,
                      LAMBDA sf : /\ (IF sf.category # "" THEN sf.category ELSE "other")
                                        = category
                                  /\ sf._id # f._id)
        list == IF Len(candidates) > 0 THEN candidates ELSE safeFoods
    IN  [i \in 1..Len(slice(list, 3)) |->
            [id |-> list[i]._id, name |-> list[i].name, brand |-> list[i].brand,
             category |-> IF list[i].category # "" THEN list[i].category ELSE "other"]]

\* getAlternativesFor(food) of GET /export/pdf: the texts drawn; id is the
\* _id of the food a text was made from, kept for the properties
getAlternativesFor(f, safeFoodsForAlt) ==
    LET cat == IF f.category # "" THEN f.category ELSE "other"
        sameCat ==
            SelectSeq(safeFoodsForAlt,
                      LAMBDA sf : /\ (IF sf.category # "" THEN sf.category ELSE "other")
                                        = cat
                                  /\ sf._id # f._id)
        list == IF Len(sameCat) > 0 THEN sameCat ELSE safeFoodsForAlt
    IN  [i \in 1..Len(slice(list, 3)) |->
            [id |-> list[i]._id,
             text |-> (IF list[i].name # "" THEN list[i].name ELSE "Unnamed")
                      \o (IF list[i].brand # "" THEN " (" \o list[i].brand \o ")"
                          ELSE "")]]

\* the foods of analyzed whose verdict is safe
safeOf(analyzed) ==
    Map(LAMBDA x : x.food, SelectSeq(analyzed, LAMBDA x : x.risk.overallRisk = "safe"))

\* perFood of the health-insights response
perFoodOf(analyzed) ==
    [i \in 1..Len(analyzed) |->
        [id |-> analyzed[i].food._id,
         name |-> analyzed[i].food.name,
         brand |-> analyzed[i].food.brand,
         category |-> analyzed[i].food.category,
         overallRisk |-> analyzed[i].risk.overallRisk,
         recommendations |-> analyzed[i].risk.recommendations,
         alternatives |-> IF analyzed[i].risk.overallRisk = "safe" THEN <<>>
                          ELSE findAlternatives(analyzed[i].food, safeOf(analyzed))]]

\* router.get('/health-insights')
GetHealthInsights ==
    /\ \E uid \in UserIds :
         report' = [route |-> "health-insights", user |-> uid,
                    perFood |-> perFoodOf(analyzeAll(find(uid), users[uid]))]
    /\ UNCHANGED <<knowledgeVars, engineVars, notifyVars, socketVars>>

\* the per-item sections of the PDF: the verdict's badge and the Safer
\* Alternatives of every item, safe or not
sectionsOf(analyzed) ==
    [i \in 1..Len(analyzed) |->
        [id |-> analyzed[i].food._id,
         name |-> analyzed[i].food.name,
         brand |-> analyzed[i].food.brand,
         category |-> analyzed[i].food.category,
         overallRisk |-> analyzed[i].risk.overallRisk,
         recommendations |-> analyzed[i].risk.recommendations,
         alternatives |-> getAlternativesFor(analyzed[i].food, safeOf(analyzed))]]

\* router.get('/export/pdf'): the first 50 foods by expiry date
ExportPdf ==
    /\ \E uid \in UserIds :
         report' = [route |-> "export/pdf", user |-> uid,
                    perFood |-> sectionsOf(analyzeAll(slice(sortByExpiryDate(find(uid)), 50),
                                                      users[uid]))]
    /\ UNCHANGED <<knowledgeVars, engineVars, notifyVars, socketVars>>

InitReports ==
    /\ Constructor
    /\ EngineIdle
    /\ users = RegisteredUsers
    /\ \E owner \in UserIds : inventory \in Inventories(owner)
    /\ emailTransporter = FALSE
    /\ twilioClient = FALSE
    /\ requests = 0
    /\ lastRequest = NoRequest
    /\ SocketIdle
    /\ report = NoReport

NextReports == GetHealthInsights \/ ExportPdf

SpecReports == InitReports /\ [][NextReports]_vars

(***************************************************************************)
(* The health-risk endpoints: GET /:id/health-risk for a food of the store *)
(* and POST /health-risk/analyze for a food given in the request           *)
(***************************************************************************)
\* the Number fields directly under nutrition in foodSchema
nutritionPaths == {"calories", "protein", "carbohydrates", "fat", "fiber", "sugar",
                   "sodium", "cholesterol"}

\* foodData of a request: nutrients under micronutrients or macronutrients,
\* as the engine reads them, or directly under nutrition, as the schema
\* records them
FoodData ==
    { Food("Potato Chips", "", "snacks", IngredientArray(<<"potato", "oil">>),
           Nutrition(Object(("fat" :> 30)), Object(("sodium" :> 700)))),
      Food("Potato Crisps", "", "snacks", IngredientArray(<<"potato", "oil">>),
           FlatNutrition(("sodium" :> 700))),
      Food("Salted Pretzels", "", "snacks", IngredientArray(<<"flour", "salt">>),
           FlatNutrition(("sodium" :> 900))),
      Food("Rice Cakes", "", "snacks", IngredientArray(<<"rice">>),
           FlatNutrition(("sodium" :> 600) @@ ("sugar" :> 1))),
      Food("Fruit Gums", "", "sweets", IngredientArray(<<"gelatine">>),
           FlatNutrition(("sugar" :> 50))),
      Food("Spring Water", "Aqua", "beverages", IngredientArray(<<>>), NoNutrition) }

\* the nutrition of a Food document: a strict schema keeps the paths it
\* declares and drops the others, macronutrients and micronutrients among them
castNutrition(nutrition) ==
    FlatNutrition([k \in DOMAIN nutrition.props \cap nutritionPaths |->
                      nutrition.props[k]])

\* new Food({...req.body, userId}) as saved and read back
savedFood(id, userId, f) ==
    FoodDoc(id, userId, [f EXCEPT !.nutrition = castNutrition(f.nutrition)], <<>>, 30)

\* the users of the endpoints: one with hypertension, one with diabetes
HealthRiskUsers ==
    ("u1" :> UserDoc("u1", "u1@example.com", "", "",
                     Profile(<<>>, <<Named("Hypertension")>>, <<>>, <<>>, Prefs(<<>>))))
 @@ ("u2" :> UserDoc("u2", "u2@example.com", "", "",
                     Profile(<<>>, <<Named("diabetes")>>, <<>>, <<>>, Prefs(<<>>))))

Stores ==
    {<<savedFood(1, uid, f)>> : uid \in UserIds, f \in FoodData}
    \cup {<<savedFood(1, "u1", f), savedFood(2, "u2", g)>> : f, g \in FoodData}

\* the response of an endpoint: food is the food object the engine was given
Response(route, uid, status, f, data) ==
    [route |-> route, user |-> uid, perFood |-> <<>>, status |-> status,
     food |-> f, data |-> data]

\* router.get('/:id/health-risk')
GetHealthRisk ==
    /\ \E uid \in UserIds, id \in 1..2 :
         LET found == SelectSeq(inventory, LAMBDA f : f._id = id /\ f.userId = uid)
         IN  report' = IF found = <<>>
                       THEN Response("GET /:id/health-risk", uid, 404, NoFoodDoc,
                                     InitialRisks)
                       ELSE Response("GET /:id/health-risk", uid, 200, found[1],
                                     analyzeHealthRisk(found[1], users[uid]).risks)
    /\ UNCHANGED <<knowledgeVars, engineVars, notifyVars, socketVars>>

\* router.post('/health-risk/analyze')
AnalyzeFoodData ==
    /\ \E uid \in UserIds, foodData \in FoodData :
         report' = Response("POST /health-risk/analyze", uid, 200, foodData,
                            analyzeHealthRisk(foodData, users[uid]).risks)
    /\ UNCHANGED <<knowledgeVars, engineVars, notifyVars, socketVars>>

InitHealthRisk ==
    /\ Constructor
    /\ EngineIdle
    /\ users = HealthRiskUsers
    /\ inventory \in Stores
    /\ emailTransporter = FALSE
    /\ twilioClient = FALSE
    /\ requests = 0
    /\ lastRequest = NoRequest
    /\ SocketIdle
    /\ report = NoReport

NextHealthRisk == GetHealthRisk \/ AnalyzeFoodData

SpecHealthRisk == InitHealthRisk /\ [][NextHealthRisk]_vars

(***************************************************************************)
(* Methods called on their own: probe holds one method, its arguments and, *)
(* once called is true, what it returned                                   *)
(***************************************************************************)
MoreFoods ==
    { Food("Maple Syrup", "", "condiments", NoIngredients, NoNutrition),
      Food("Protein Bar", "Fit", "snacks", IngredientString("whey protein, nuts, salt"),
           Nutrition(Object(("protein" :> 25) @@ ("fat" :> 20) @@ ("sugar" :> 16)),
                     Object(("potassium" :> 300) @@ ("phosphorus" :> 250)))),
      Food("Spicy Fried Beans", "", "canned foods",
           IngredientArray(<<"beans", "Spicy sauce", "caffeine", "lactose">>),
           Nutrition(Object(("carbohydrates" :> 60)), Object(("potassium" :> 301)))),
      Food("Spinach Salad", "", "vegetables",
           IngredientString("spinach, kale, broccoli, grapefruit juice, alcohol"),
           NoNutrition),
      Food("Soft Drink", "", "beverages", IngredientString("carbonated water"),
           Nutrition(Object(("sugar" :> 15)), NoObject)),
      Food("Instant Soup", "", "soups", IngredientString("noodles, herbs"),
           Nutrition(Object(("sodium" :> 700)), Object(("sodium" :> 100)))),
      Food("Sugar-Free Gum", "", "confectionery", IngredientString("xylitol, gum base"),
           NoNutrition),
      Food("Broth", "", "soups", IngredientString("water, herbs"),
           Nutrition(Object(("sodium" :> 100) @@ ("protein" :> 0)),
                     Object(("sodium" :> 601)))) }

\* the food objects a checker is handed: as given, or as an earlier checker
\* call left them
CheckedFoods ==
    Foods \cup MoreFoods \cup {extractIngredients(f).food : f \in Foods \cup MoreFoods}

DiseaseNames ==
    { <<"diabetes">>, <<"Hypertension">>, <<"flu", "diabetes">>,
      <<"kidney disease", "heart disease">>, <<"gout", "flu", "celiac">>,
      <<"liver disease", "lactose intolerance">>, <<"diabetes", "Diabetes">> }

MedicationNames ==
    { <<"warfarin">>, <<"Statins", "metformin">>, <<"aspirin", "metformin">>,
      <<"calcium channel blockers", "ace inhibitors">>,
      <<"monoamine oxidase inhibitors">>, <<"ibuprofen">> }

SymptomNames ==
    { <<"headache">>, <<"Bloating", "heartburn">>, <<"cough", "nausea">>,
      <<"stomach pain", "diarrhea">>, <<"constipation", "rash">>, <<"fatigue">> }

\* the keywords checkDiseaseRisks passes to checkNutritionContent, and the
\* names of the seven nutrients
NutrientKeywords ==
    UNION {{diseaseRiskDatabase[d].avoid[i] : i \in 1..Len(diseaseRiskDatabase[d].avoid)}
           \cup {diseaseRiskDatabase[d].limit[i] : i \in 1..Len(diseaseRiskDatabase[d].limit)} :
           d \in DOMAIN diseaseRiskDatabase}
    \cup nutrientMap

\* nutrition objects: one nutrient at, around and far from its threshold,
\* under macronutrients or micronutrients, and those of the foods
Nutritions ==
    {Nutrition(Object((n :> v)), NoObject) :
        n \in nutrientMap, v \in {0, 1, 15, 16, 20, 21, 60, 61, 200, 201, 300, 301, 600, 601}}
    \cup {Nutrition(NoObject, Object((n :> v))) :
        n \in nutrientMap, v \in {14, 19, 59, 199, 299, 599, 700}}
    \cup {Nutrition(NoObject, NoObject), Nutrition(Object(<<>>), NoObject)}
    \cup {f.nutrition : f \in Foods \cup MoreFoods}

NutritionProbe(nutrition, nutrient) ==
    [fn |-> "checkNutritionContent", nutrition |-> nutrition, nutrient |-> nutrient,
     called |-> FALSE, result |-> FALSE]

\* the diseases heuristicHighRiskFor is asked about: keys of the disease table
HeuristicProbe(disease, f) ==
    [fn |-> "heuristicHighRiskFor", disease |-> disease, food |-> f,
     called |-> FALSE, result |-> FALSE]

\* the risks object as analyzeHealthRisk has filled it in when it calls
\* adjustForDietaryPreferences
checkedRisks(f, profile) ==
    symptomsStep(
      drugInteractionsStep(
        diseasesStep(
          allergensStep(normalizeStep(f, profile), names(profile.allergies)),
          names(profile.diseases)),
        names(profile.medications)),
      names(profile.symptoms))

\* finding lists of other callers of the method: disease findings of any
\* severity and text
DiseaseFinding(disease, severity, found) ==
    [type |-> "disease", disease |-> disease, severity |-> severity, found |-> found,
     consequence |-> "", longTermConsequence |-> "", recommendation |-> ""]

DiseaseFindings ==
    { DiseaseFinding("diabetes", "moderate", "sugar"),
      DiseaseFinding("Diabetes", "moderate", "glucose syrup"),
      DiseaseFinding("diabetes", "moderate", "pasta"),
      DiseaseFinding("hypertension", "moderate", "sugar"),
      DiseaseFinding("diabetes", "risky", "heuristic") }

OtherRisks ==
    { [InitialRisks EXCEPT !.diseases = diseases, !.allergens = allergens,
                           !.symptoms = symptoms] :
        diseases \in {<<>>} \cup {<<a>> : a \in DiseaseFindings}
                    \cup {<<a, b>> : a, b \in DiseaseFindings},
        allergens \in {<<>>, <<[type |-> "allergen", allergen |-> "sugar",
                                severity |-> "harmful", found |-> "sugar",
                                consequence |-> "", recommendation |-> ""]>>},
        symptoms \in {<<>>, <<[type |-> "symptom_trigger", symptom |-> "diabetes",
                               severity |-> "moderate", found |-> "sugar",
                               consequence |-> "", recommendation |-> ""]>>} }

DietaryPreferences ==
    { Prefs(<<>>), Prefs(<<"low-sugar">>), Prefs(<<"vegan", "Low Sugar">>),
      Prefs(<<"vegan">>), PrefsString }

\* an evaluation that has not yet reached adjustForDietaryPreferences
EvaluationProbe(f, profile) ==
    [fn |-> "analyzeHealthRisk", food |-> f, profile |-> profile,
     risks |-> InitialRisks, dietaryPreferences |-> profile.dietaryPreferences,
     called |-> FALSE, threw |-> FALSE, after |-> InitialRisks]

\* the evaluation has filled in st.risks and called the method on it
adjustedInEvaluation(st, r) ==
    [probe EXCEPT !.called = TRUE, !.risks = st.risks, !.threw = r.threw,
                  !.after = r.risks]

AdjustProbe(risks, dietaryPreferences) ==
    [fn |-> "adjustForDietaryPreferences", risks |-> risks,
     dietaryPreferences |-> dietaryPreferences, called |-> FALSE, threw |-> FALSE,
     after |-> risks]

\* the method has been called: r.risks is the risks object after the call
adjustedRisks(r) == [probe EXCEPT !.called = TRUE, !.threw = r.threw, !.after = r.risks]

\* RecommendationService.getHealthyAlternatives: the entries of
\* alternativeMap in the order of their insertion.  diseases.includes(name)
\* compares each element with the string itself: an element that is an
\* object with a name is never equal to it.
Substitution(unhealthy, alternatives, reason) ==
    [unhealthyFood |-> unhealthy, alternatives |-> alternatives, reason |-> reason,
     category |-> "substitution"]

arrayIncludes(entries, name) ==
    \E i \in 1..Len(entries) : entries[i].isString /\ entries[i].value = name

getHealthyAlternatives(user) ==
    <<Substitution("white bread",
                   <<"Whole grain bread", "Ezekiel bread", "Cauliflower bread">>,
                   "Higher fiber, better blood sugar control"),
      Substitution("white rice", <<"Brown rice", "Quinoa", "Cauliflower rice">>,
                   "More nutrients, lower glycemic index"),
      Substitution("soda", <<"Sparkling water with fruit", "Herbal tea", "Kombucha">>,
                   "No added sugars, better hydration"),
      Substitution("chips", <<"Baked vegetable chips", "Air-popped popcorn", "Nuts">>,
                   "Less processed, healthier fats"),
      Substitution("ice cream", <<"Frozen yogurt", "Nice cream (frozen banana)", "Sorbet">>,
                   "Lower calories, less saturated fat")>>
    \o (IF arrayIncludes(user.diseases, "diabetes")
        THEN <<Substitution("regular pasta",
                            <<"Zucchini noodles", "Shirataki noodles", "Lentil pasta">>,
                            "Lower carbs, better blood sugar control")>>
        ELSE <<>>)
    \o (IF arrayIncludes(user.diseases, "hypertension")
        THEN <<Substitution("table salt",
                            <<"Herbs and spices", "Lemon juice", "Garlic powder">>,
                            "Flavor without sodium")>>
        ELSE <<>>)

\* the users GET /recommendations reads with User.findById: the diseases of
\* a User document are subdocuments with a name
RecommendationUsers ==
    { UserDoc("u1", "u1@example.com", "", "",
              Profile(<<>>, diseases, <<>>, <<>>, Prefs(<<>>))) :
        diseases \in { <<>>, <<Named("diabetes")>>, <<Named("Hypertension")>>,
                       <<Named("hypertension"), Named("diabetes")>>,
                       <<Named("gout")>> } }

AlternativesProbe(user) ==
    [fn |-> "getHealthyAlternatives", user |-> user, called |-> FALSE, result |-> <<>>]

\* isExpired, daysUntilExpiry and expiryStatus of a Food document; times are
\* in hours
HoursPerDay == 24

\* Math.ceil(diffTime / (1000 * 60 * 60 * 24))
ceilDays(diffTime) == -((-diffTime) \div HoursPerDay)

daysUntilExpiry(expiryDate, today) == ceilDays(expiryDate - today)

expiryStatus(expiryDate, today) ==
    IF daysUntilExpiry(expiryDate, today) < 0 THEN "expired"
    ELSE IF daysUntilExpiry(expiryDate, today) <= 1 THEN "expiring-today"
    ELSE IF daysUntilExpiry(expiryDate, today) <= 3 THEN "expiring-soon"
    ELSE IF daysUntilExpiry(expiryDate, today) <= 7 THEN "expiring-week"
    ELSE "safe"

\* this.expiryDate && new Date() > this.expiryDate
isExpired(expiryDate, now) == now > expiryDate

\* expiry dates and current times, by the hour, over three weeks
ExpiryDates == {240, 250, 263}
Clock == 0..504

ExpiryProbe(expiryDate, now) ==
    [fn |-> "expiry", expiryDate |-> expiryDate, now |-> now, called |-> FALSE,
     isExpired |-> FALSE, expiryStatus |-> "unknown"]

\* food.isExpired() and food.expiryStatus read at the same time
expiryRead(expired, status) ==
    [probe EXCEPT !.called = TRUE, !.isExpired = expired, !.expiryStatus = status]

\* a method that returns a value has been called
result(value) == [probe EXCEPT !.called = TRUE, !.result = value]

\* a checker and its arguments, not yet called
CheckerProbe(fn, f, userNames) ==
    [fn |-> fn, food |-> f, names |-> userNames, called |-> FALSE,
     threw |-> FALSE, risks |-> <<>>]

\* the checker has been called: r is what it hands back
checked(r) == [probe EXCEPT !.called = TRUE, !.threw = r.threw, !.risks = r.risks]

FunctionsIdle ==
    /\ Constructor
    /\ food = Food("Spring Water", "Aqua", "beverages", NoIngredients, NoNutrition)
    /\ userProfile = NoProfile
    /\ food0 = food
    /\ userProfile0 = userProfile
    /\ verdicts = <<>>
    /\ AggIdle
    /\ CaseIdle
    /\ OrderIdle
    /\ allergenCalls = <<>>
    /\ NotifyIdle
    /\ SocketIdle
    /\ report = NoReport

functionVars == <<knowledgeVars, callVars, aggVars, caseVars, orderVars,
                  allergenCalls, notifyVars, socketVars, report>>

InitFunctions ==
    /\ FunctionsIdle
    /\ \/ probe \in {CheckerProbe("checkDiseaseRisks", f, ns) :
                        f \in CheckedFoods, ns \in DiseaseNames}
       \/ probe \in {CheckerProbe("checkDrugInteractions", f, ns) :
                        f \in CheckedFoods, ns \in MedicationNames}
       \/ probe \in {CheckerProbe("checkSymptomTriggers", f, ns) :
                        f \in CheckedFoods, ns \in SymptomNames}
       \/ probe \in {NutritionProbe(n, k) : n \in Nutritions, k \in NutrientKeywords}
       \/ probe \in {EvaluationProbe(f, profile) :
                        f \in Foods \cup MoreFoods, profile \in Profiles}
       \/ probe \in {AdjustProbe(risks, prefs) :
                        risks \in OtherRisks, prefs \in DietaryPreferences}
       \/ probe \in {AlternativesProbe(user) : user \in RecommendationUsers}
       \/ probe \in {ExpiryProbe(expiryDate, now) :
                        expiryDate \in ExpiryDates, now \in Clock}
       \/ probe \in {HeuristicProbe(d, f) :
                        d \in DOMAIN diseaseRiskDatabase,
                        f \in {g \in CheckedFoods : IsString(g.name)}}

CheckDiseaseRisks ==
    /\ probe.fn = "checkDiseaseRisks"
    /\ ~probe.called
    /\ probe' = checked(checkDiseaseRisks(probe.food, probe.names))
    /\ UNCHANGED functionVars

CheckDrugInteractions ==
    /\ probe.fn = "checkDrugInteractions"
    /\ ~probe.called
    /\ probe' = checked(checkDrugInteractions(probe.food, probe.names))
    /\ UNCHANGED functionVars

CheckSymptomTriggers ==
    /\ probe.fn = "checkSymptomTriggers"
    /\ ~probe.called
    /\ probe' = checked(checkSymptomTriggers(probe.food, probe.names))
    /\ UNCHANGED functionVars

\* this.checkNutritionContent(nutrition, avoidItem, true)
CheckNutritionContent ==
    /\ probe.fn = "checkNutritionContent"
    /\ ~probe.called
    /\ probe' = result(checkNutritionContent(probe.nutrition, probe.nutrient, TRUE))
    /\ UNCHANGED functionVars

\* this.heuristicHighRiskFor(disease.toLowerCase(), { name, category, ingredients })
HeuristicHighRiskFor ==
    /\ probe.fn = "heuristicHighRiskFor"
    /\ ~probe.called
    /\ probe' = result(heuristicHighRiskFor(
                          probe.disease,
                          [name |-> toLowerCase(probe.food.name),
                           category |-> toLowerCase(probe.food.category),
                           ingredients |-> extractIngredients(probe.food).ingredients]))
    /\ UNCHANGED functionVars

\* this.adjustForDietaryPreferences(risks, { dietaryPreferences })
AdjustForDietaryPreferences ==
    /\ probe.fn = "adjustForDietaryPreferences"
    /\ ~probe.called
    /\ probe' = adjustedRisks(adjustForDietaryPreferences(
                                 probe.risks,
                                 [dietaryPreferences |-> probe.dietaryPreferences]))
    /\ UNCHANGED functionVars

\* analyzeHealthRisk up to and with its call of adjustForDietaryPreferences;
\* an evaluation that throws before does not call it
AdjustInEvaluation ==
    /\ probe.fn = "analyzeHealthRisk"
    /\ ~probe.called
    /\ ~checkedRisks(probe.food, probe.profile).threw
    /\ probe' = adjustedInEvaluation(
                   checkedRisks(probe.food, probe.profile),
                   adjustForDietaryPreferences(
                       checkedRisks(probe.food, probe.profile).risks,
                       [dietaryPreferences |-> probe.profile.dietaryPreferences]))
    /\ UNCHANGED functionVars

\* recommendations.alternatives = await this.getHealthyAlternatives(user)
GetHealthyAlternatives ==
    /\ probe.fn = "getHealthyAlternatives"
    /\ ~probe.called
    /\ probe' = result(getHealthyAlternatives(probe.user))
    /\ UNCHANGED functionVars

ReadExpiry ==
    /\ probe.fn = "expiry"
    /\ ~probe.called
    /\ probe' = expiryRead(isExpired(probe.expiryDate, probe.now),
                           expiryStatus(probe.expiryDate, probe.now))
    /\ UNCHANGED functionVars

NextFunctions ==
    \/ CheckDiseaseRisks
    \/ CheckDrugInteractions
    \/ CheckSymptomTriggers
    \/ CheckNutritionContent
    \/ HeuristicHighRiskFor
    \/ AdjustForDietaryPreferences
    \/ AdjustInEvaluation
    \/ GetHealthyAlternatives
    \/ ReadExpiry

SpecFunctions == InitFunctions /\ [][NextFunctions]_vars

(***************************************************************************)
(* Properties                                                              *)
(***************************************************************************)
Severities == {"safe", "moderate", "risky", "harmful"}

Rank(sev) == CASE sev = "safe" -> 0 [] sev = "moderate" -> 1
               [] sev = "risky" -> 2 [] sev = "harmful" -> 3

\* every finding of a verdict, allergens first
AllFindings(v) == v.allergens \o v.diseases \o v.drugInteractions \o v.symptoms

\* the verdict comes from the catch block
Failed(v) == "error" \in DOMAIN v

\* the severity of highest rank among the findings of v, safe when there are none
MaxSeverity(v) ==
    CHOOSE sev \in Severities :
        /\ \A i \in 1..Len(AllFindings(v)) : Rank(AllFindings(v)[i].severity) <= Rank(sev)
        /\ \/ sev = "safe"
           \/ \E i \in 1..Len(AllFindings(v)) : AllFindings(v)[i].severity = sev

PeanutButterCookies ==
    Food("Peanut Butter Cookies", "", "",
         IngredientString("wheat flour, peanut butter, sugar"), NoNutrition)
GlucoseBiscuits == Food("Glucose Biscuits", "", "snacks", NoIngredients, NoNutrition)
PeanutsAllergyOnly == Profile(<<Named("peanuts")>>, <<>>, <<>>, <<>>, Prefs(<<>>))
DiabetesOnly == Profile(<<>>, <<Named("diabetes")>>, <<>>, <<>>, Prefs(<<>>))

\* C1: in every verdict analyzeHealthRisk returns, the verdicts of the catch
\* block included, overallRisk is safe exactly when the four finding lists
\* are empty, and it is the maximum severity among the findings.
C1_SeverityMonotonicity ==
    \A i \in 1..Len(verdicts) :
        /\ (verdicts[i].overallRisk = "safe") <=> (AllFindings(verdicts[i]) = <<>>)
        /\ verdicts[i].overallRisk = MaxSeverity(verdicts[i])

\* C2: in every verdict analyzeHealthRisk returns, a non-empty allergens list
\* comes with overallRisk harmful.
C2_AllergenSupremacy ==
    \A i \in 1..Len(verdicts) :
        Len(verdicts[i].allergens) > 0 => verdicts[i].overallRisk = "harmful"

\* C3: calculateOverallRisk returns harmful if a finding of any of the four
\* lists is harmful, else risky if one is risky, else moderate if one is
\* moderate, else safe; reordering the findings of a list or exchanging the
\* lists does not change the result.
AnyFinding(risks, sev) ==
    \E n \in 1..4 : \E i \in 1..Len(risks[ListNames[n]]) :
        risks[ListNames[n]][i].severity = sev

C3_OverallRiskIsWorstSeverity ==
    aggOut # "none" =>
        /\ aggOut = aggFirst
        /\ AnyFinding(aggIn, "harmful") => aggOut = "harmful"
        /\ (~AnyFinding(aggIn, "harmful") /\ AnyFinding(aggIn, "risky")) => aggOut = "risky"
        /\ (~AnyFinding(aggIn, "harmful") /\ ~AnyFinding(aggIn, "risky")
               /\ AnyFinding(aggIn, "moderate")) => aggOut = "moderate"
        /\ (\A sev \in FindingSeverities : ~AnyFinding(aggIn, sev)) => aggOut = "safe"

\* a harmful finding that stands after a risky one, in a later list, computed
\* again after a reordering
C3_Witness ==
    /\ aggOut = "harmful"
    /\ aggFirst = "harmful"
    /\ Len(aggIn.allergens) = 1 /\ aggIn.allergens[1].severity = "risky"
    /\ Len(aggIn.symptoms) = 2
    /\ aggIn.symptoms[1].severity = "moderate"
    /\ aggIn.symptoms[2].severity = "harmful"

\* C4: analyzeHealthRisk never throws: whatever the food and the profile,
\* what it returns has the four finding lists, an overallRisk among safe,
\* moderate, risky, harmful, and a recommendations list.
IsList(x) == DOMAIN x = 1..Len(x)

C4_AlwaysReturnsVerdict ==
    \A i \in 1..Len(verdicts) :
        /\ {"allergens", "diseases", "drugInteractions", "symptoms",
            "overallRisk", "recommendations"} \subseteq DOMAIN verdicts[i]
        /\ IsList(verdicts[i].allergens)
        /\ IsList(verdicts[i].diseases)
        /\ IsList(verdicts[i].drugInteractions)
        /\ IsList(verdicts[i].symptoms)
        /\ verdicts[i].overallRisk \in Severities
        /\ IsList(verdicts[i].recommendations)

\* verdicts returned for a missing profile, for a food whose name is not a
\* string and for preferences that are not an array
C4_Witness ==
    /\ Len(verdicts) = MaxCalls
    /\ Failed(verdicts[1])
    /\ \/ ~userProfile.defined
       \/ ~IsString(food0.name)
       \/ ~userProfile.dietaryPreferences.isArray

\* C5: analyzeHealthRisk changes neither its inputs nor the knowledge bases:
\* after any number of evaluations the food, the profile and the three
\* tables are what they were before the first one.
C5_NoSideEffects ==
    /\ food = food0
    /\ userProfile = userProfile0
    /\ allergenDatabase = initializeAllergenDatabase
    /\ diseaseRiskDatabase = initializeDiseaseRiskDatabase
    /\ drugInteractionDatabase = initializeDrugInteractionDatabase

\* C6: successive calls of analyzeHealthRisk with the same food object and
\* the same profile return equal verdicts.
C6_Determinism ==
    \A i, j \in 1..Len(verdicts) : verdicts[i] = verdicts[j]

\* C7: in every verdict analyzeHealthRisk computes (its try block ran to the
\* end), recommendations is the headline of overallRisk followed by the
\* non-empty recommendation of every finding, in the order allergens,
\* diseases, drugInteractions, symptoms, each distinct text once, at its
\* first occurrence; with no finding it is the safe headline alone.
Headline(sev) ==
    CASE sev = "harmful" -> HeadlineHarmful [] sev = "risky" -> HeadlineRisky
      [] sev = "moderate" -> HeadlineModerate [] sev = "safe" -> HeadlineSafe

\* the position of the first finding of v whose recommendation is text
FirstFinding(v, text) ==
    CHOOSE i \in 1..Len(AllFindings(v)) :
        /\ AllFindings(v)[i].recommendation = text
        /\ \A j \in 1..(i - 1) : AllFindings(v)[j].recommendation # text

RecommendationsOf(v) ==
    { AllFindings(v)[i].recommendation : i \in 1..Len(AllFindings(v)) } \ {""}

C8_SafeWithEmptyRecommendations ==
    \A i \in 1..Len(verdicts) :
        (AllFindings(verdicts[i]) = <<>> \/ ~userProfile.defined) =>
            /\ verdicts[i].overallRisk = "safe"
            /\ verdicts[i].recommendations = <<>>

\* C8 amended: when no finding matches, the verdict has overallRisk safe and
\* its recommendations list is the safe headline alone, or is empty when the
\* verdict comes from the catch block; an absent profile gives the verdict of
\* the catch block: no finding, safe, no recommendation.
C8_SafeDefault ==
    \A i \in 1..Len(verdicts) :
        /\ AllFindings(verdicts[i]) = <<>> =>
              /\ verdicts[i].overallRisk = "safe"
              /\ verdicts[i].recommendations =
                     IF Failed(verdicts[i]) THEN <<>> ELSE <<HeadlineSafe>>
        /\ ~userProfile.defined =>
              /\ Failed(verdicts[i])
              /\ AllFindings(verdicts[i]) = <<>>
              /\ verdicts[i].overallRisk = "safe"
              /\ verdicts[i].recommendations = <<>>

\* a food that matches nothing of a profile with entries, evaluated
C8_Witness ==
    /\ Len(verdicts) > 0
    /\ userProfile.defined
    /\ Len(userProfile.diseases) > 0
    /\ ~Failed(verdicts[1])
    /\ AllFindings(verdicts[1]) = <<>>
    /\ verdicts[1].recommendations = <<HeadlineSafe>>

\* the verdict of the catch block for an absent profile
C8_WitnessNoProfile ==
    /\ Len(verdicts) > 0
    /\ ~userProfile.defined
    /\ verdicts[1].recommendations = <<>>

\* C9: for the food Peanut Butter Cookies with ingredients "wheat flour,
\* peanut butter, sugar" and a profile whose only entry is the allergy
\* peanuts, the verdict is harmful with one allergen finding whose found
\* value contains "peanut".
C9_PeanutButterCookies ==
    (food0 = PeanutButterCookies /\ userProfile = PeanutsAllergyOnly) =>
        \A i \in 1..Len(verdicts) :
            /\ verdicts[i].overallRisk = "harmful"
            /\ Len(verdicts[i].allergens) = 1
            /\ includes(verdicts[i].allergens[1].found, "peanut")

\* C10 as stated: for the food Glucose Biscuits of category snacks, without
\* nutrition, and a profile whose only entry is the disease diabetes, the
\* verdict has exactly one disease finding, risky, and overallRisk risky.
C10_OneRiskyFinding ==
    (food0 = GlucoseBiscuits /\ userProfile = DiabetesOnly) =>
        \A i \in 1..Len(verdicts) :
            /\ Len(verdicts[i].diseases) = 1
            /\ verdicts[i].diseases[1].severity = "risky"
            /\ verdicts[i].overallRisk = "risky"

\* C10 amended: for that food and profile the verdict has one disease finding
\* for each of the eight avoid keywords of diabetes, in their order, all of
\* them risky, found being the keyword for glucose and 'heuristic' for the
\* seven others; the other lists are empty and overallRisk is risky.
C10_OneRiskyFindingPerAvoidKeyword ==
    (food0 = GlucoseBiscuits /\ userProfile = DiabetesOnly) =>
        \A i \in 1..Len(verdicts) :
            LET v == verdicts[i]
                avoid == initializeDiseaseRiskDatabase["diabetes"].avoid
            IN  /\ Len(avoid) = 8
                /\ Len(v.diseases) = Len(avoid)
                /\ \A k \in 1..Len(v.diseases) :
                      /\ v.diseases[k].severity = "risky"
                      /\ v.diseases[k].disease = "diabetes"
                      /\ v.diseases[k].found =
                             IF avoid[k] = "glucose" THEN "glucose" ELSE "heuristic"
                /\ v.allergens = <<>> /\ v.drugInteractions = <<>> /\ v.symptoms = <<>>
                /\ v.overallRisk = "risky"

C10_Witness ==
    /\ food0 = GlucoseBiscuits
    /\ userProfile = DiabetesOnly
    /\ Len(verdicts) > 0
    /\ Len(verdicts[1].diseases) = 8

\* C11: for a profile with the dietary preference low-sugar and the disease
\* diabetes, a food that matches only the limit list of diabetes (its terms
\* are the carbohydrate sources: carbohydrates, refined flour, white rice,
\* white bread, pasta) ends with that finding at severity risky and with
\* overallRisk risky.
LowSugarDiabetes ==
    Profile(<<>>, <<Named("diabetes")>>, <<>>, <<>>, Prefs(<<"low-sugar">>))

OnlyLimitList(v) ==
    /\ Len(v.diseases) > 0
    /\ \A k \in 1..Len(v.diseases) :
          \E n \in 1..Len(initializeDiseaseRiskDatabase["diabetes"].limit) :
              v.diseases[k].found = initializeDiseaseRiskDatabase["diabetes"].limit[n]

C11_LowSugarEscalation ==
    userProfile = LowSugarDiabetes =>
        \A i \in 1..Len(verdicts) :
            OnlyLimitList(verdicts[i]) =>
                /\ \A k \in 1..Len(verdicts[i].diseases) :
                      verdicts[i].diseases[k].severity = "risky"
                /\ verdicts[i].overallRisk = "risky"

\* C12: matching is case-insensitive: the verdict for a food and profile and
\* the verdict for the same food and profile with the letter case of the
\* food's name, brand, category and ingredients, or of the profile entries'
\* names, changed have the same findings (kind, severity and found keyword,
\* list by list, in order) and the same overallRisk.
FindingsOf(v) ==
    [l \in {ListNames[n] : n \in 1..4} |->
        [k \in 1..Len(v[l]) |-> <<v[l][k].type, v[l][k].severity, v[l][k].found>>]]

C12_CaseInsensitive ==
    caseVerdicts # <<>> =>
        /\ FindingsOf(caseVerdicts[1]) = FindingsOf(caseVerdicts[2])
        /\ caseVerdicts[1].overallRisk = caseVerdicts[2].overallRisk

\* "Contains PEANUTS" and "contains peanuts" evaluated for the allergy "Nuts"
C12_Witness ==
    /\ caseVerdicts # <<>>
    /\ food0.name = "Contains PEANUTS"
    /\ caseChange.food = "lower"
    /\ \E i \in 1..Len(userProfile.allergies) : userProfile.allergies[i].value = "Nuts"
    /\ Len(caseVerdicts[1].allergens) > 0
    /\ caseVerdicts[2].overallRisk = "harmful"

\* C13: the verdict for a food and profile does not depend on the order in
\* which the four checkers run: run in any order they give the verdict the
\* code's order gives.
C13_OrderIndependence ==
    orderVerdicts # <<>> => orderVerdicts[1] = orderVerdicts[2]

\* C14: sendHealthRiskAlert hands no notification to sendNotification when
\* the verdict's overallRisk is safe; otherwise it hands over exactly one, of
\* type health_risk, whose title carries the severity label CRITICAL if and
\* only if overallRisk is harmful and WARNING otherwise, whose foodItems is
\* the evaluated food alone (name, brand, expiryDate) and whose
\* recommendations are the verdict's.
SeverityLabel(notification, name) ==
    IF notification.title = "[!!] Health CRITICAL: " \o name THEN "CRITICAL"
    ELSE IF notification.title = "[!] Health WARNING: " \o name THEN "WARNING"
    ELSE "none"

C14_HealthRiskAlert ==
    lastRequest.op = "alert" =>
        LET risks == lastRequest.risks
            f == lastRequest.food
            sent == lastRequest.sent
        IN  /\ risks.overallRisk = "safe" => sent = <<>>
            /\ risks.overallRisk # "safe" =>
                  /\ Len(sent) = 1
                  /\ sent[1].notification.type = "health_risk"
                  /\ SeverityLabel(sent[1].notification, f.name) =
                        IF risks.overallRisk = "harmful" THEN "CRITICAL" ELSE "WARNING"
                  /\ sent[1].notification.foodItems =
                        <<[name |-> f.name, brand |-> f.brand,
                           expiryDate |-> f.expiryDate]>>
                  /\ sent[1].notification.recommendations = risks.recommendations

\* an alert for a harmful verdict after an alert for a verdict that is not
C14_Witness ==
    /\ lastRequest.op = "alert"
    /\ requests = 2
    /\ lastRequest.risks.overallRisk = "harmful"
    /\ Len(lastRequest.sent) = 1
    /\ Len(lastRequest.risks.recommendations) > 1

C14_WitnessSafe ==
    /\ lastRequest.op = "alert"
    /\ lastRequest.risks.overallRisk = "safe"
    /\ lastRequest.food.name = "Spring Water"

\* C15: when a food is added through the food-creation route and its
\* evaluation against the user's health profile is not safe, the handling of
\* that request sends the user a health-risk alert for that food.
C15_AlertOnFoodCreation ==
    (/\ lastRequest.op = "addFood"
     /\ analyzeHealthRisk(lastRequest.food, users[lastRequest.user]).risks.overallRisk
            # "safe") =>
            \E i \in 1..Len(lastRequest.sent) :
                /\ lastRequest.sent[i].notification.type = "health_risk"
                /\ lastRequest.sent[i].notification.foodItems[1].name
                       = lastRequest.food.name

\* C16: sendNotification delivers on a channel only when the user's stored
\* preference for that channel is enabled: a call made while the stored
\* in-app preference is off stores no in-app notification, no other channel
\* is called while its stored preference is off, and a user whose stored
\* email preference is on and who has an email address gets the email
\* channel called.
C16_ChannelPreferences ==
    \A i \in 1..Len(lastRequest.sent) :
        LET user == users[lastRequest.user]
            channels == user.notificationPreferences.channels
            results == lastRequest.sent[i].results
        IN  /\ results.inApp.called => channels.inApp
            /\ results.email.called => channels.email
            /\ results.sms.called => channels.sms
            /\ results.whatsapp.called => channels.whatsapp
            /\ (channels.email /\ user.email # "") => results.email.called

\* C17: room isolation: whatever sockets connect and whatever
\* join-user-room events they send, a new-notification event emitted for a
\* user is received only by sockets that belong to that user.
C17_RoomIsolation ==
    \A event \in received : event.belongsTo = event.user

\* C18: in the health-insights response a food whose verdict is safe has no
\* alternatives; a food whose verdict is not safe has at most three, each of
\* them one of the user's foods whose verdict is safe, and they share the
\* food's category whenever a safe food of that category exists.
CategoryOf(entry) == IF entry.category # "" THEN entry.category ELSE "other"

SafeEntries(perFood) ==
    {i \in 1..Len(perFood) : perFood[i].overallRisk = "safe"}

C18_Alternatives ==
    report.route = "health-insights" =>
        \A i \in 1..Len(report.perFood) :
            LET entry == report.perFood[i]
                alts == entry.alternatives
                safe == SafeEntries(report.perFood)
            IN  /\ entry.overallRisk = "safe" => alts = <<>>
                /\ entry.overallRisk # "safe" =>
                      /\ Len(alts) <= 3
                      /\ \A k \in 1..Len(alts) :
                            \E j \in safe : report.perFood[j].id = alts[k].id
                      /\ (\E j \in safe : CategoryOf(report.perFood[j]) = CategoryOf(entry))
                            => \A k \in 1..Len(alts) :
                                  alts[k].category = CategoryOf(entry)

\* a risky food with four safe foods of its category: three are returned
C18_Witness ==
    /\ report.route = "health-insights"
    /\ \E i \in 1..Len(report.perFood) :
          /\ report.perFood[i].overallRisk = "harmful"
          /\ Len(report.perFood[i].alternatives) = 3
          /\ Cardinality({j \in SafeEntries(report.perFood) :
                            CategoryOf(report.perFood[j])
                                = CategoryOf(report.perFood[i])}) = 4

\* a food that is not safe with no safe food of its category: the
\* alternatives come from the other categories
C18_WitnessFallback ==
    /\ report.route = "health-insights"
    /\ \E i \in 1..Len(report.perFood) :
          /\ report.perFood[i].overallRisk = "moderate"
          /\ Len(report.perFood[i].alternatives) > 0
          /\ report.perFood[i].alternatives[1].category # CategoryOf(report.perFood[i])

\* C19: no alternatives list made for a food holds that food itself, in the
\* health-insights response and in the Safer Alternatives of the PDF report.
C19_NoSelfAlternative ==
    \A i \in 1..Len(report.perFood) :
        \A k \in 1..Len(report.perFood[i].alternatives) :
            report.perFood[i].alternatives[k].id # report.perFood[i].id

\* C20: when checkAllergenRisks returns, it returns exactly one finding for
\* each pair of an allergy name of the profile and a keyword of its group
\* such that some token of the food (an ingredient, the name, the brand or
\* the category) contains the keyword, and no other finding; the group is the
\* knowledge base's list for the lowercased name, or the lowercased name
\* alone; every finding is harmful, findings of one allergy are not merged.
TokensOf(f) ==
    (IF f.ingredients.kind = "string" /\ f.ingredients.str # ""
     THEN {trim(split(f.ingredients.str)[i]) : i \in 1..Len(split(f.ingredients.str))}
     ELSE {f.ingredients.arr[i] : i \in 1..Len(f.ingredients.arr)})
    \cup ({f.name, f.brand, f.category} \ {""})

GroupOf(name) ==
    IF toLowerCase(name) \in DOMAIN initializeAllergenDatabase
    THEN initializeAllergenDatabase[toLowerCase(name)]
    ELSE <<toLowerCase(name)>>

Contains(f, keyword) ==
    \E token \in TokensOf(f) : IsString(token) /\ includes(toLowerCase(token), keyword)

C20_AllergenFindings ==
    \A n \in 1..Len(allergenCalls) :
        LET risks == allergenCalls[n].risks
            allergies == names(userProfile.allergies)
        IN  ~allergenCalls[n].threw =>
              /\ \A i \in 1..Len(risks) :
                    /\ risks[i].type = "allergen"
                    /\ risks[i].severity = "harmful"
                    /\ \E a \in 1..Len(allergies) :
                          /\ risks[i].allergen = allergies[a]
                          /\ \E k \in 1..Len(GroupOf(allergies[a])) :
                                risks[i].found = GroupOf(allergies[a])[k]
              /\ \A a \in 1..Len(allergies) :
                    \A k \in 1..Len(GroupOf(allergies[a])) :
                        Cardinality({i \in 1..Len(risks) :
                                        /\ risks[i].allergen = allergies[a]
                                        /\ risks[i].found = GroupOf(allergies[a])[k]})
                            = IF Contains(food0, GroupOf(allergies[a])[k]) THEN 1 ELSE 0

\* three findings for the allergy nuts on one food, one of them matched in
\* the food's name alone
C20_Witness ==
    /\ Len(allergenCalls) = MaxCalls
    /\ ~allergenCalls[MaxCalls].threw
    /\ Len(allergenCalls[MaxCalls].risks) >= 3
    /\ \A i \in 1..3 : allergenCalls[MaxCalls].risks[i].allergen = "Nuts"

C20_WitnessName ==
    /\ Len(allergenCalls) > 0
    /\ food0.name = "Contains PEANUTS"
    /\ food0.ingredients.kind = "none"
    /\ ~allergenCalls[1].threw
    /\ Len(allergenCalls[1].risks) = 2

\* C21: when checkDiseaseRisks returns, it returns for each profile disease
\* of the knowledge base one risky finding per avoid keyword that a token
\* contains, whose nutrient is above its threshold, or for which the disease
\* heuristic fires (found is the keyword, else '<keyword> (high)', else
\* 'heuristic'), and one moderate finding per limit keyword that a token
\* contains or whose nutrient is above its threshold; a disease that is not
\* in the knowledge base gives no finding and leaves the others' as they are.
ClaimedThresholds ==
    ("sugar" :> 15) @@ ("sodium" :> 600) @@ ("carbohydrates" :> 60)
 @@ ("protein" :> 20) @@ ("fat" :> 20) @@ ("potassium" :> 300)
 @@ ("phosphorus" :> 200)

\* nutrition.macronutrients and nutrition.micronutrients as one map, the
\* micronutrient taken where both record a nutrient
NutrientsOf(nutrition) ==
    (IF nutrition.defined /\ nutrition.micronutrients.defined
     THEN nutrition.micronutrients.props ELSE <<>>)
 @@ (IF nutrition.defined /\ nutrition.macronutrients.defined
     THEN nutrition.macronutrients.props ELSE <<>>)

HighNutrient(nutrition, keyword) ==
    /\ keyword \in DOMAIN ClaimedThresholds
    /\ keyword \in DOMAIN NutrientsOf(nutrition)
    /\ NutrientsOf(nutrition)[keyword] > ClaimedThresholds[keyword]

HeuristicFires(f, disease) ==
    heuristicHighRiskFor(toLowerCase(disease),
                         [name |-> toLowerCase(f.name),
                          category |-> toLowerCase(f.category),
                          ingredients |-> extractIngredients(f).ingredients])

Brief(risks, who) ==
    [i \in 1..Len(risks) |->
        [name |-> risks[i][who], severity |-> risks[i].severity,
         found |-> risks[i].found]]

ExpectedOfDisease(f, disease) ==
    IF toLowerCase(disease) \notin DOMAIN diseaseRiskDatabase THEN <<>>
    ELSE LET data == diseaseRiskDatabase[toLowerCase(disease)]
         IN  ConcatMap(LAMBDA k :
                 IF Contains(f, k)
                 THEN <<[name |-> disease, severity |-> "risky", found |-> k]>>
                 ELSE IF HighNutrient(f.nutrition, k)
                 THEN <<[name |-> disease, severity |-> "risky",
                         found |-> k \o " (high)"]>>
                 ELSE IF HeuristicFires(f, disease)
                 THEN <<[name |-> disease, severity |-> "risky",
                         found |-> "heuristic"]>>
                 ELSE <<>>, data.avoid)
          \o ConcatMap(LAMBDA k :
                 IF Contains(f, k) \/ HighNutrient(f.nutrition, k)
                 THEN <<[name |-> disease, severity |-> "moderate", found |-> k]>>
                 ELSE <<>>, data.limit)

C21_DiseaseFindings ==
    (probe.fn = "checkDiseaseRisks" /\ probe.called /\ ~probe.threw) =>
        Brief(probe.risks, "disease")
            = ConcatMap(LAMBDA disease : ExpectedOfDisease(probe.food, disease),
                        probe.names)

\* a disease that is not in the knowledge base next to one that is, with a
\* finding for a keyword in a token and findings of the heuristic
C21_Witness ==
    /\ probe.fn = "checkDiseaseRisks"
    /\ probe.called
    /\ ~probe.threw
    /\ probe.names = <<"flu", "diabetes">>
    /\ \E i, j \in 1..Len(probe.risks) :
          /\ probe.risks[i].found = "sugar"
          /\ probe.risks[j].found = "heuristic"

\* a finding of the nutrition trigger next to moderate ones
C21_WitnessHigh ==
    /\ probe.fn = "checkDiseaseRisks"
    /\ probe.called
    /\ ~probe.threw
    /\ \E i, j \in 1..Len(probe.risks) :
          /\ probe.risks[i].found = "phosphorus (high)"
          /\ probe.risks[j].severity = "moderate"
          /\ probe.risks[j].found = "protein"

\* C22: the nutrition trigger fires for a keyword exactly when the keyword
\* is one of sugar, sodium, carbohydrates, protein, fat, potassium,
\* phosphorus and the value recorded for it under nutrition.macronutrients
\* or nutrition.micronutrients is strictly greater than 15, 600, 60, 20, 20,
\* 300, 200; and a food with nutrition.micronutrients.sodium = 700 and no
\* sodium keyword in its text gets, for hypertension, a risky finding with
\* found 'sodium (high)'.
C22_NutritionTrigger ==
    /\ (probe.fn = "checkNutritionContent" /\ probe.called) =>
          (probe.result <=> HighNutrient(probe.nutrition, probe.nutrient))
    /\ (/\ probe.fn = "checkDiseaseRisks"
        /\ probe.called
        /\ ~probe.threw
        /\ probe.food.nutrition.micronutrients.defined
        /\ "sodium" \in DOMAIN probe.food.nutrition.micronutrients.props
        /\ probe.food.nutrition.micronutrients.props["sodium"] = 700
        /\ ~Contains(probe.food, "sodium")
        /\ \E d \in 1..Len(probe.names) : toLowerCase(probe.names[d]) = "hypertension")
       => \E i \in 1..Len(probe.risks) :
             /\ probe.risks[i].severity = "risky"
             /\ probe.risks[i].found = "sodium (high)"

\* the trigger fired on a value one above the threshold
C22_Witness ==
    /\ probe.fn = "checkNutritionContent"
    /\ probe.called
    /\ probe.result
    /\ probe.nutrient = "sodium"
    /\ NutrientsOf(probe.nutrition)["sodium"] = 601

\* a value equal to the threshold did not fire
C22_WitnessEqual ==
    /\ probe.fn = "checkNutritionContent"
    /\ probe.called
    /\ ~probe.result
    /\ probe.nutrient = "potassium"
    /\ "potassium" \in DOMAIN NutrientsOf(probe.nutrition)
    /\ NutrientsOf(probe.nutrition)["potassium"] = 300

\* the potato chips with 700 mg of sodium, checked for hypertension
C22_WitnessSodium ==
    /\ probe.fn = "checkDiseaseRisks"
    /\ probe.called
    /\ probe.food.name = "Potato Chips"
    /\ probe.names = <<"Hypertension">>
    /\ Len(probe.risks) = 1
    /\ probe.risks[1].found = "sodium (high)"

\* C23: the health-risk endpoint reports, for a food of the store with
\* nutrition.sodium = 700 whose text mentions no keyword of hypertension and
\* a user with hypertension, the risky finding 'sodium (high)' that it
\* reports for a food given with nutrition.micronutrients.sodium = 700.
SodiumFinding(diseases) ==
    \E i \in 1..Len(diseases) :
        diseases[i].severity = "risky" /\ diseases[i].found = "sodium (high)"

Hypertensive(user) ==
    \E d \in 1..Len(names(user.diseases)) :
        toLowerCase(names(user.diseases)[d]) = "hypertension"

C23_StoredNutrition ==
    (/\ report.route = "GET /:id/health-risk"
     /\ report.status = 200
     /\ Hypertensive(users[report.user])
     /\ "sodium" \in DOMAIN report.food.nutrition.props
     /\ report.food.nutrition.props["sodium"] = 700
     /\ \A k \in 1..Len(diseaseRiskDatabase["hypertension"].avoid) :
           ~Contains(report.food, diseaseRiskDatabase["hypertension"].avoid[k]))
    => SodiumFinding(report.data.diseases)

\* C24 as stated: heuristicHighRiskFor returns true exactly when the disease
\* is diabetes and the lowercased concatenation of the food's name, category
\* and tokens contains glucose, sugar, sucrose, fructose, corn syrup, jaggery,
\* maltodextrin or sweet, or biscuit, cookie, candy, cake, soda, juice,
\* dessert, chocolate or pastry.
HayOf(f) ==
    toLowerCase(f.name) \o " " \o toLowerCase(f.category) \o " "
        \o toLowerCase(join(extractIngredients(f).ingredients))

ClaimedSugarKeywords ==
    {"glucose", "sugar", "sucrose", "fructose", "corn syrup", "jaggery",
     "maltodextrin", "sweet"}

ClaimedSugaryFoodKeywords ==
    {"biscuit", "cookie", "candy", "cake", "soda", "juice", "dessert", "chocolate",
     "pastry"}

HeuristicAsClaimed(disease, f, keywords) ==
    /\ disease = "diabetes"
    /\ \E k \in keywords : includes(HayOf(f), k)

C24_HeuristicKeywords ==
    (probe.fn = "heuristicHighRiskFor" /\ probe.called) =>
        (probe.result <=>
            HeuristicAsClaimed(probe.disease, probe.food,
                               ClaimedSugarKeywords \cup ClaimedSugaryFoodKeywords))

\* C24, amended: the keywords are those of the claim and syrup and soft
\* drink; the heuristic is false for every other disease, and a sugar-free
\* product matches.
C24_HeuristicKeywordsOfCode ==
    (probe.fn = "heuristicHighRiskFor" /\ probe.called) =>
        (probe.result <=>
            HeuristicAsClaimed(probe.disease, probe.food,
                               ClaimedSugarKeywords \cup ClaimedSugaryFoodKeywords
                               \cup {"syrup", "soft drink"}))

\* the sugar-free gum matches for diabetes
C24_Witness ==
    /\ probe.fn = "heuristicHighRiskFor"
    /\ probe.called
    /\ probe.result
    /\ probe.disease = "diabetes"
    /\ probe.food.name = "Sugar-Free Gum"

\* a sugary food asked about for another disease
C24_WitnessOtherDisease ==
    /\ probe.fn = "heuristicHighRiskFor"
    /\ probe.called
    /\ ~probe.result
    /\ probe.disease = "gout"
    /\ probe.food.name = "Glucose Biscuits"

\* C25: when checkDrugInteractions returns, it returns for each profile
\* medication of the knowledge base one harmful finding per keyword of its
\* avoid list that some token contains and one moderate finding per keyword
\* of its limit list that some token contains; a medication that is not in
\* the knowledge base gives no finding.
ExpectedOfMedication(f, medication) ==
    IF toLowerCase(medication) \notin DOMAIN drugInteractionDatabase THEN <<>>
    ELSE LET data == drugInteractionDatabase[toLowerCase(medication)]
         IN  ConcatMap(LAMBDA k :
                 IF Contains(f, k)
                 THEN <<[name |-> medication, severity |-> "harmful", found |-> k]>>
                 ELSE <<>>, data.avoid)
          \o ConcatMap(LAMBDA k :
                 IF Contains(f, k)
                 THEN <<[name |-> medication, severity |-> "moderate", found |-> k]>>
                 ELSE <<>>, data.limit)

C25_DrugFindings ==
    (probe.fn = "checkDrugInteractions" /\ probe.called /\ ~probe.threw) =>
        Brief(probe.risks, "medication")
            = ConcatMap(LAMBDA medication : ExpectedOfMedication(probe.food, medication),
                        probe.names)

\* three harmful findings of statins and a moderate one of metformin, one
\* of them for a keyword that is part of a longer token
C25_Witness ==
    /\ probe.fn = "checkDrugInteractions"
    /\ probe.called
    /\ ~probe.threw
    /\ probe.names = <<"Statins", "metformin">>
    /\ Brief(probe.risks, "medication")
         = <<[name |-> "Statins", severity |-> "harmful", found |-> "grapefruit"],
             [name |-> "Statins", severity |-> "harmful", found |-> "grapefruit juice"],
             [name |-> "Statins", severity |-> "harmful", found |-> "alcohol"],
             [name |-> "metformin", severity |-> "moderate", found |-> "alcohol"]>>

\* a medication that is not in the knowledge base, on a food that has
\* findings for the one next to it
C25_WitnessUnknown ==
    /\ probe.fn = "checkDrugInteractions"
    /\ probe.called
    /\ probe.names = <<"aspirin", "metformin">>
    /\ Len(probe.risks) = 1
    /\ probe.risks[1].medication = "metformin"

\* C26: every finding of checkSymptomTriggers is moderate, there is exactly
\* one per profile symptom and trigger keyword of that symptom that some
\* token contains, and a symptom that is not in the trigger table gives none.
ExpectedOfSymptom(f, symptom) ==
    IF toLowerCase(symptom) \notin DOMAIN symptomTriggers THEN <<>>
    ELSE ConcatMap(LAMBDA k :
             IF Contains(f, k)
             THEN <<[name |-> symptom, severity |-> "moderate", found |-> k]>>
             ELSE <<>>, symptomTriggers[toLowerCase(symptom)])

C26_SymptomFindings ==
    (probe.fn = "checkSymptomTriggers" /\ probe.called /\ ~probe.threw) =>
        /\ \A i \in 1..Len(probe.risks) : probe.risks[i].severity = "moderate"
        /\ Brief(probe.risks, "symptom")
             = ConcatMap(LAMBDA symptom : ExpectedOfSymptom(probe.food, symptom),
                         probe.names)

\* two findings for one symptom, next to a symptom that is not in the table
C26_Witness ==
    /\ probe.fn = "checkSymptomTriggers"
    /\ probe.called
    /\ ~probe.threw
    /\ probe.names = <<"cough", "nausea">>
    /\ Len(probe.risks) = 2
    /\ probe.risks[1].found = "fried"
    /\ probe.risks[2].found = "spicy"

\* C27: adjustForDietaryPreferences only escalates: it lowers no finding's
\* severity, adds, removes and reorders none, changes only disease findings
\* of diabetes, from moderate to risky, leaves the allergen, drug-interaction
\* and symptom lists as they are, and changes nothing when the low-sugar
\* preference is absent.
PrefersLowSugar(dietaryPreferences) ==
    /\ dietaryPreferences.isArray
    /\ \E i \in 1..Len(dietaryPreferences.items) :
          toLowerCase(dietaryPreferences.items[i]) \in {"low-sugar", "low sugar"}

C27_EscalationOnly ==
    (probe.fn \in {"adjustForDietaryPreferences", "analyzeHealthRisk"} /\ probe.called) =>
        /\ probe.after.allergens = probe.risks.allergens
        /\ probe.after.drugInteractions = probe.risks.drugInteractions
        /\ probe.after.symptoms = probe.risks.symptoms
        /\ Len(probe.after.diseases) = Len(probe.risks.diseases)
        /\ \A i \in 1..Len(probe.risks.diseases) :
              \/ probe.after.diseases[i] = probe.risks.diseases[i]
              \/ /\ probe.after.diseases[i]
                      = [probe.risks.diseases[i] EXCEPT !.severity = "risky"]
                 /\ probe.risks.diseases[i].severity = "moderate"
                 /\ toLowerCase(probe.risks.diseases[i].disease) = "diabetes"
        /\ \A i \in 1..Len(probe.risks.diseases) :
              Rank(probe.after.diseases[i].severity)
                  >= Rank(probe.risks.diseases[i].severity)
        /\ ~PrefersLowSugar(probe.dietaryPreferences) => probe.after = probe.risks

\* a moderate finding of diabetes escalated next to a finding of another
\* disease that was left as it was
C27_Witness ==
    /\ probe.fn = "adjustForDietaryPreferences"
    /\ probe.called
    /\ Len(probe.risks.diseases) = 2
    /\ probe.risks.diseases[1].severity = "moderate"
    /\ probe.after.diseases[1].severity = "risky"
    /\ probe.risks.diseases[2].disease = "hypertension"
    /\ probe.after.diseases[2].severity = "moderate"
    /\ Len(probe.risks.allergens) = 1

\* the risks object of an evaluation, with findings of the heuristic, and
\* the low-sugar preference
C27_WitnessEvaluation ==
    /\ probe.fn = "analyzeHealthRisk"
    /\ probe.called
    /\ PrefersLowSugar(probe.dietaryPreferences)
    /\ Len(probe.risks.allergens) > 0
    /\ \E i \in 1..Len(probe.risks.diseases) : probe.risks.diseases[i].found = "heuristic"

\* C28: the list getHealthyAlternatives returns holds the five base entries
\* for every user, the 'regular pasta' entry whenever the user's diseases
\* (named entries, matched without regard to case) list diabetes, and the
\* 'table salt' entry whenever they list hypertension.
Lists(user, disease) ==
    \E d \in 1..Len(names(user.diseases)) : toLowerCase(names(user.diseases)[d]) = disease

Substitutes(list, unhealthy) ==
    \E i \in 1..Len(list) : list[i].unhealthyFood = unhealthy

C28_StaticSubstitutions ==
    (probe.fn = "getHealthyAlternatives" /\ probe.called) =>
        /\ \A unhealthy \in {"white bread", "white rice", "soda", "chips", "ice cream"} :
              Substitutes(probe.result, unhealthy)
        /\ Lists(probe.user, "diabetes") => Substitutes(probe.result, "regular pasta")
        /\ Lists(probe.user, "hypertension") => Substitutes(probe.result, "table salt")

\* C29: the food-creation route reports success if and only if the food was
\* persisted: after a failure status the store holds no record of the
\* request, and after a record was added the status is 201.
C29_SuccessIffPersisted ==
    lastRequest.op = "addFood" =>
        ((\E i \in 1..Len(inventory) : inventory[i]._id = lastRequest.food._id)
            <=> lastRequest.status = 201)

\* C30: for every food with an expiry date and every current time,
\* isExpired() is true exactly when expiryStatus is 'expired'.
C30_ExpiredIffStatusExpired ==
    (probe.fn = "expiry" /\ probe.called) =>
        (probe.isExpired <=> probe.expiryStatus = "expired")

====
